---- MODULE Spec2Model ----
(***************************************************************************)
(* Model of the client-side interaction layer of the Square Transport      *)
(* website: class SquareWebsite (main script) with its navigation          *)
(* controller, throttled scroll handlers, scroll-reveal observer and       *)
(* counter animator.                                                        *)
(*                                                                         *)
(* Strings that the code inspects (href, data-target, textContent) are     *)
(* sequences of one-character strings, so that startsWith / includes /     *)
(* parseInt / number formatting are computed the way the code computes     *)
(* them.  Time is in milliseconds.  Timers live in one queue ordered by    *)
(* due time (ties: insertion order), as in the host's event loop; a timer  *)
(* fires at or after its due time.                                         *)
(***************************************************************************)
EXTENDS Integers, Sequences, FiniteSets, TLC

(* ------------------------------ bounds --------------------------------- *)
NumLinks == 2          \* navigation links on the page
MaxToggleRun == 4      \* consecutive toggle clicks followed by the model
MaxTime == 250         \* horizon of the virtual clock in the scroll model (ms)
NumReveal == 2         \* .scroll-reveal elements on the page
NumCounters == 1       \* [data-target] elements on the page
NumClockCounters == 2  \* [data-target] elements on the page in the load-timing model
MaxCounterTime == 3600 \* horizon of the virtual clock in the counter model (ms)
MaxBurst == 3          \* scroll events followed inside one cooldown window

NumForms == 1          \* form[data-contact] elements on the page
MaxSubmits == 2        \* submit events followed by the model
MaxCalls == 3          \* calls of a debounced function followed by the model
DebounceWait == 100    \* the wait of the debounced function (ms)
MaxTweens == 5         \* tweens on the timeline at a time
MaxClicks == 2         \* link clicks followed by the model
ViewportHeight == 100  \* height of the viewport (px)

(* -------------------------- program constants -------------------------- *)
SubmitDelay == 2000    \* the simulated submission: setTimeout(resolve, 2000)
NoteLifetime == 5000   \* a notification starts to leave after 5000 ms
ExitDuration == 300    \* and is removed 300 ms later
DefaultDuration == 60  \* gsap.defaults({duration: 0.6}), in 1/100 s
ReducedDuration == 1   \* gsap.set("*", {duration: 0.01}), in 1/100 s
RestoredDuration == 60 \* gsap.set("*", {duration: 0.6}), in 1/100 s
HeroTitleDuration == 100   \* hero title: duration 1
SectionDuration == 80      \* animateSection: duration 0.8
CardDuration == 60         \* card entrance: duration 0.6
CardHoverDuration == 30    \* card mouseenter / mouseleave: duration 0.3
ButtonHoverDuration == 20  \* button mouseenter / mouseleave: duration 0.2
CtaShadowDuration == 30    \* CTA button box shadow on mouseenter: duration 0.3
FadeOutDuration == 40      \* page fade-out: duration 0.4
FadeInDuration == 60       \* page fade-in: duration 0.6
FadeInDelay == 10          \* page fade-in: delay 0.1
StatDuration == 200        \* animateStats: duration 2
StatDelayPercent == 50     \* animateStats, percentage: delay 0.5
StatDelayCurrency == 70    \* animateStats, currency: delay 0.7
StatDelayPlain == 30       \* animateStats, plain number: delay 0.3
SectionStart == 80         \* animateSection: start "top 80%"
CardStart == 85            \* animateCards: start "top 85%"
ScrollThreshold == 100 \* window.scrollY > 100
NavThrottleLimit == 100 \* throttle(handleScroll, 100)
ParallaxThrottleLimit == 16 \* throttle(handleParallax, 16)
CounterFrames == 60    \* increment = target / 60
CounterInterval == 50  \* setInterval(..., 50)
SettleDelay == 500     \* setTimeout(..., 500) after load

(* ------------------------------ inputs --------------------------------- *)
\* href attributes of links: two page paths, an in-page anchor whose target
\* element exists and one whose target element does not exist
HrefRoot == <<"/">>
HrefAbout == <<"/", "a">>
HrefAnchor == <<"#", "c">>
HrefDangling == <<"#", "x">>
Hrefs == {HrefRoot, HrefAbout, HrefAnchor, HrefDangling}
PagePaths == {HrefRoot, HrefAbout}
\* ids of the elements of the page that anchors can point to, with the
\* scroll offset smooth scrolling brings the page to
AnchorTargets == {<<"c">>}
AnchorPosition == 250
ScrollOffsets == {0, 100, 101, 250}
TickSteps == {50}
\* data-target attributes: "70", "15", "0", a non-numeric one and an empty one
DataTargets == {<<"7", "0">>, <<"1", "5">>, <<"0">>, <<"x">>, <<>>}
\* data-target attributes in the load-timing model: "15" and a non-numeric one
ClockTargets == {<<"1", "5">>, <<"x">>}
ClockTexts == {<<"0", "%">>}
\* textContent of a counter element in the markup: "0%", "$0M", "0"
CounterTexts == {<<"0", "%">>, <<"$", "0", "M">>, <<"0">>, <<"0", "M">>}
\* an element that is a counter and a stat number: its data-target and its
\* text in the markup ("70%", "0%", "$5M", "15")
StatMarkups == {[target |-> <<"7", "0">>, text |-> <<"7", "0", "%">>],
                [target |-> <<"7", "0">>, text |-> <<"0", "%">>],
                [target |-> <<"5">>, text |-> <<"$", "5", "M">>],
                [target |-> <<"1", "5">>, text |-> <<"1", "5">>]}
\* that element is the page's first [data-target] element
StatCounter == 1
\* data-stagger attributes: none, "0", "2", and a non-numeric one
StaggerAttrs == {<<>>, <<"0">>, <<"2">>, <<"x">>}
HeroHeight == 200
\* the submit control's label in the markup, and the label while sending
FormLabels == {"Send Message"}
BusyLabel == "Sending..."
\* how the awaited promise of a submission settles: it only ever resolves
SubmitOutcomes == {"resolved"}
\* optional string fields of the payload: absent, or a string
Absent == [has |-> FALSE, val |-> ""]
Str(v) == [has |-> TRUE, val |-> v]
FieldValues(v) == {Absent, Str(""), Str(v)}
\* data.achievements: absent, or a list of at most one achievement whose
\* title is absent, empty or a string
AchievementLists == {<<>>} \cup {<<[title |-> t]>> : t \in FieldValues("ISO 9001")}
AchievementValues ==
    {[has |-> FALSE, list |-> <<>>]} \cup {[has |-> TRUE, list |-> l] : l \in AchievementLists}
NoBenefits ==
    [has |-> FALSE, cost_reduction |-> Absent, energy_reduction |-> Absent,
     carbon_reduction |-> Absent]
BenefitValues ==
    {NoBenefits} \cup
    [has : {TRUE}, cost_reduction : FieldValues("30%"), energy_reduction : FieldValues("25%"),
     carbon_reduction : FieldValues("40%")]
NoMarketData ==
    [has |-> FALSE, total_addressable_market |-> Absent,
     serviceable_addressable_market |-> Absent, serviceable_obtainable_market |-> Absent]
MarketValues ==
    {NoMarketData} \cup
    [has : {TRUE}, total_addressable_market : {Absent, Str("$5B")},
     serviceable_addressable_market : {Absent, Str("$2B")},
     serviceable_obtainable_market : {Absent, Str("$1B")}]
Payloads == [achievements : AchievementValues, benefits : BenefitValues,
             market_data : MarketValues]
EmptyPayload == [achievements |-> [has |-> FALSE, list |-> <<>>], benefits |-> NoBenefits,
                 market_data |-> NoMarketData]
\* the display elements hydration looks up: the badge of [data-achievements],
\* [data-benefit=...] and [data-market=...]; a page has all of them, only
\* the benefits, or none
Elements == {"badge", "cost", "energy", "carbon", "tam", "sam", "som"}
ElementSets == {Elements, {"cost", "energy", "carbon"}, {}}
OldText == "old"
\* the set-up routines setupAnimations calls
AnimationSetups == {"animateHero", "animateScrollElements", "animateStats", "animateCards",
                    "setupPageTransitions", "setupHoverAnimations"}
\* arguments a debounced function is called with
DebounceArgs == {"a", "b"}
\* how the request for the payload settles
FetchOutcomes == {"ok", "notok", "rejected", "badjson"}
\* the properties the tweens animate
Props == {"x", "y", "opacity", "scale", "boxShadow"}
\* time between two ticks of the engine, in 1/100 s
FrameSteps == {10}
\* the elements the animations script looks up, per kind of page: a landing
\* page with hero and main, pages with one card, one button or one CTA
\* button above the fold, a page with a problem section and a benefits
\* section below the fold, and a page with main and links
HeroDom == {"heroTitle", "main"}
HoverElements == {"card", "btn", "cta"}
HoverDoms == {{"card"}, {"btn"}, {"cta"}}
TriggerDom == {"problemTitle", "benefit"}
TransitionDom == {"main"}
\* distance of an element's top from the top of the document (px)
ElementTop == [heroTitle |-> 0, main |-> 0, card |-> 50, btn |-> 50, cta |-> 50,
               problemTitle |-> 150, solutionTitle |-> 200, benefit |-> 285]
\* scroll offsets of the trigger model: the top, past the problem section's
\* trigger, between the 85% and the 80% trigger of the first .benefit, past both
TriggerOffsets == {0, 75, 203, 210}
\* the links a[href^="/"] of the page: one of the page's host, one
\* protocol-relative link to another host
PageHost == "square.example"
PageLinks == <<[href |-> "/about", host |-> "square.example"],
               [href |-> "/contact", host |-> "square.example"],
               [href |-> "//cdn.example/x", host |-> "cdn.example"]>>

VARIABLES
    \* document and script life cycle
    readyState,        \* "loading" | "interactive" | "complete"
    constructed,       \* new SquareWebsite() has run
    domReadyListener,  \* a DOMContentLoaded listener is registered
    domReadyRuns,      \* number of onDOMReady() runs
    loadListener,      \* the counters' window load listener is registered
    loadAt,            \* history: time of the window load event (-1: not fired)
    pageKind,          \* the kind of page: which subsystem's elements it has
    \* navigation
    links,             \* sequence of [href, inMobile]
    currentPath,       \* window.location.pathname
    linkActive,        \* per link: class nav__link--active
    ariaCurrent,       \* per link: aria-current = 'page'
    toggleActive,      \* #nav-toggle has nav__toggle--active
    menuOpen,          \* #nav-mobile has nav__menu--open
    ariaExpanded,      \* aria-expanded attribute of #nav-toggle
    bodyOverflow,      \* document.body.style.overflow
    \* scroll
    scrollY,           \* window.scrollY
    navScrolled,       \* #main-nav has nav--scrolled
    heroTranslate2,    \* hero translateY in half pixels
    inThrottle,        \* per throttle closure: its inThrottle flag
    now,               \* virtual clock (ms)
    timers,            \* timer queue, sorted by due time
    \* scroll reveal
    stagger,           \* per reveal element: its data-stagger attribute (<<>>: none)
    observed,          \* elements the IntersectionObserver observes
    intersecting,      \* per element: last reported state, "unknown" | "in" | "out"
    revealed,          \* per element: class scroll-reveal--visible
    transitionDelay,   \* per element: style.transitionDelay in tenths of a second (-1: unset)
    \* counters
    dataTarget,        \* per counter element: its data-target attribute
    text,              \* per counter element: textContent
    started,           \* per counter: startCounter has run
    target,            \* per counter: parseInt(data-target), [nan, val]
    ticks,             \* per counter: additions of increment to current so far
    cleared,           \* per counter: clearInterval(timer) was called
    \* history (observation only)
    revealCount,       \* per element: changes of revealed from false to true
    reworked,          \* per element: an intersecting entry was handled after the reveal
    text0,             \* per counter: textContent before the animation
    writes,            \* per counter: number of writes of textContent
    lastShown,         \* per counter: the number last written, [nan, val]
    prevShown,         \* per counter: the number written before it
    lastEvent,         \* the last handler that ran
    toggleRun,         \* consecutive toggle clicks so far
    runStart,          \* menu state before that run of toggle clicks
    evalCount,         \* evaluations of handleScroll
    lastEvalAt,        \* time of the last evaluation (-1: none)
    prevEvalAt,        \* time of the evaluation before it (-1: none)
    suppressed,        \* scroll events swallowed since the last evaluation
    \* contact forms
    label,             \* per form: textContent of its submit control
    disabled,          \* per form: the submit control is disabled
    loading,           \* per form: the submit control has btn--loading
    fields,            \* per form: "filled" | "empty" (after form.reset())
    submissions,       \* runs of the submit handler: [form, originalText, at, done, note]
    label0,            \* history: per form, the label in the markup
    \* notifications
    notes,             \* toasts created so far: [severity, inBody, animation, createdAt,
                       \*   exitAt, removedAt, exits, removals, threw]
    \* remote data hydration
    payload,           \* the JSON object /api/company-data answers with
    present,           \* the display elements that exist on the page
    fetchState,        \* "idle" | "pending" | "settled"
    fetchOutcome,      \* how the request settled ("none" before)
    elemText,          \* per display element: textContent
    elemText0,         \* history: per display element, the text in the markup
    warnings,          \* console.warn calls of loadCompanyData
    \* timeline animation engine (animations script)
    gsapLoaded,        \* typeof gsap !== 'undefined'
    animListener,      \* the script's DOMContentLoaded listener is registered
    animInitRuns,      \* runs of that listener
    animSetups,        \* set-up routines of setupAnimations that have run
    defaultsDuration,  \* gsap.defaults duration in 1/100 s (-1: not set)
    setDuration,       \* duration last given to gsap.set("*") in 1/100 s (-1: none)
    visListener,       \* the visibilitychange listener is registered
    motionListener,    \* the reduced-motion change listener is registered
    hidden,            \* document.hidden
    reducedMotion,     \* (prefers-reduced-motion: reduce) matches
    timelinePaused,    \* gsap.globalTimeline is paused
    animWarnings,      \* console.warn calls of initGSAP
    animErrors,        \* handlers of the script that ended in an uncaught error
    visHandled,        \* history: the visibilitychange listener has run
    animDom,           \* the elements of the page the script animates
    tweens,            \* the tweens on gsap's global timeline, in creation order:
                       \*   [kind, target, props, from, to, dur, pos, state,
                       \*    triggered, start, click, varsDur]; dur is the tween's
                       \*   duration(), varsDur the duration of its vars
    style,             \* per element and property: "identity" | "start" | "mid" |
                       \*   "hover" | "out"
    pointer,           \* per hover element: the last pointer event
    clicks,            \* link clicks so far: [link, href, sameHost, prevented]
    navigations,       \* changes of window.location: [href, click, cause, elapsed]
    \* a function wrapped by debounce(func, wait)
    debCalls,          \* calls of the wrapper so far: [at, args]
    debInvoked         \* invocations of func so far: [at, call, args]

docVars == <<readyState, constructed, domReadyListener, domReadyRuns, loadListener, loadAt,
             pageKind>>
linkVars == <<links, currentPath, linkActive, ariaCurrent>>
menuVars == <<toggleActive, menuOpen, ariaExpanded, bodyOverflow>>
scrollVars == <<scrollY, navScrolled, heroTranslate2, inThrottle>>
timeVars == <<now, timers>>
menuHist == <<toggleRun, runStart>>
scrollHist == <<evalCount, lastEvalAt, prevEvalAt, suppressed>>
revealVars == <<stagger, observed, intersecting, revealed, transitionDelay, revealCount, reworked>>
counterVars == <<dataTarget, text, started, target, ticks, cleared,
                 text0, writes, lastShown, prevShown>>
formVars == <<label, disabled, loading, fields, submissions, label0>>
noteVars == <<notes>>
dataVars == <<payload, present, fetchState, fetchOutcome, elemText, elemText0, warnings>>
animCtl == <<gsapLoaded, animListener, animInitRuns, animSetups, defaultsDuration, setDuration,
             visListener, motionListener, hidden, reducedMotion, timelinePaused,
             animWarnings, animErrors, visHandled, animDom>>
tweenVars == <<tweens, style, pointer, clicks, navigations>>
animVars == <<animCtl, tweenVars>>
debVars == <<debCalls, debInvoked>>
vars == <<docVars, linkVars, menuVars, scrollVars, timeVars, lastEvent, menuHist, scrollHist,
          revealVars, counterVars, formVars, noteVars, dataVars, animVars, debVars>>

(* ------------------------------ helpers -------------------------------- *)
Max(a, b) == IF a >= b THEN a ELSE b

\* String(bool) as setAttribute stringifies its argument
BoolToString(b) == IF b THEN "true" ELSE "false"

\* a[href^="#"]
IsAnchor(href) == Len(href) > 0 /\ Head(href) = "#"

\* new URL(link.href).pathname: a fragment-only href resolves against the
\* current page, so its path is the current path
Pathname(href, page) == IF IsAnchor(href) THEN page ELSE href

\* numbers as the script has them: NaN or an integer
NaN == [nan |-> TRUE, val |-> 0]
Num(n) == [nan |-> FALSE, val |-> n]

Digits == {"0", "1", "2", "3", "4", "5", "6", "7", "8", "9"}
DigitVal(c) ==
    CASE c = "0" -> 0 [] c = "1" -> 1 [] c = "2" -> 2 [] c = "3" -> 3 [] c = "4" -> 4
      [] c = "5" -> 5 [] c = "6" -> 6 [] c = "7" -> 7 [] c = "8" -> 8 [] c = "9" -> 9

\* value of a sequence of digits, most significant first
RECURSIVE DigitsVal(_)
DigitsVal(str) ==
    IF str = <<>> THEN 0
    ELSE DigitsVal(SubSeq(str, 1, Len(str) - 1)) * 10 + DigitVal(str[Len(str)])

\* ToNumber of a string in a comparison or a product ("2" > 0, "2" * 0.1):
\* the empty string is 0, a string of digits its value, anything else NaN
ToNumber(str) ==
    IF \A i \in DOMAIN str : str[i] \in Digits THEN Num(DigitsVal(str)) ELSE NaN

\* str.includes(ch)
Includes(str, ch) == \E i \in DOMAIN str : str[i] = ch

\* length of the longest prefix of digits
RECURSIVE DigitPrefixLen(_)
DigitPrefixLen(str) ==
    IF str = <<>> \/ Head(str) \notin Digits THEN 0 ELSE 1 + DigitPrefixLen(Tail(str))

RECURSIVE SkipSpaces(_)
SkipSpaces(str) ==
    IF str # <<>> /\ Head(str) = " " THEN SkipSpaces(Tail(str)) ELSE str

\* parseInt(str): leading white space is skipped, a sign is read, then the
\* longest run of digits; NaN when there is no digit
parseInt(str) ==
    LET s1 == SkipSpaces(str)
        neg == s1 # <<>> /\ Head(s1) = "-"
        s2 == IF s1 # <<>> /\ Head(s1) \in {"-", "+"} THEN Tail(s1) ELSE s1
        n == DigitPrefixLen(s2)
    IN IF n = 0 THEN NaN
       ELSE Num((IF neg THEN -1 ELSE 1) * DigitsVal(SubSeq(s2, 1, n)))

\* decimal digits of a natural number
RECURSIVE NatToString(_)
NatToString(n) ==
    LET d == <<"0", "1", "2", "3", "4", "5", "6", "7", "8", "9">>[(n % 10) + 1]
    IN IF n < 10 THEN <<d>> ELSE NatToString(n \div 10) \o <<d>>

\* String(number), as string concatenation converts it
NumberToString(x) ==
    IF x.nan THEN <<"N", "a", "N">>
    ELSE IF x.val < 0 THEN <<"-">> \o NatToString(0 - x.val)
    ELSE NatToString(x.val)

\* setTimeout: insert after every timer that is due no later
RECURSIVE InsertTimer(_, _)
InsertTimer(q, t) ==
    IF q = <<>> THEN <<t>>
    ELSE IF Head(q).due <= t.due THEN <<Head(q)>> \o InsertTimer(Tail(q), t)
    ELSE <<t>> \o q

MenuState == [toggle |-> toggleActive, menu |-> menuOpen,
              aria |-> ariaExpanded, overflow |-> bodyOverflow]
NoEvent == [type |-> "none", anchor |-> FALSE, wasOpen |-> FALSE]

(* --------------------------- initial states ---------------------------- *)
\* The page as delivered: menu closed, nothing scrolled, no script run yet.
InitDoc ==
    /\ readyState \in {"loading", "interactive", "complete"}
    /\ constructed = FALSE
    /\ domReadyListener = FALSE
    /\ domReadyRuns = 0
    /\ loadListener = FALSE
    /\ loadAt = -1
    /\ pageKind = "single"

\* the toggle control is delivered with aria-expanded="false"
InitMenu ==
    /\ toggleActive = FALSE
    /\ menuOpen = FALSE
    /\ ariaExpanded = "false"
    /\ bodyOverflow = ""
    /\ lastEvent = NoEvent
    /\ toggleRun = 0
    /\ runStart = MenuState

InitScroll ==
    /\ scrollY = 0
    /\ navScrolled = FALSE
    /\ heroTranslate2 = 0
    /\ inThrottle = [w \in {"nav", "parallax"} |-> FALSE]
    /\ now = 0
    /\ timers = <<>>
    /\ evalCount = 0
    /\ lastEvalAt = -1
    /\ prevEvalAt = -1
    /\ suppressed = 0

\* links drawn from the hrefs; the markup may already mark one link active
InitLinks ==
    /\ links \in [1..NumLinks -> [href : Hrefs, inMobile : BOOLEAN]]
    /\ currentPath \in PagePaths
    /\ \E m \in 0..NumLinks :
         /\ linkActive = [l \in 1..NumLinks |-> l = m]
         /\ ariaCurrent = [l \in 1..NumLinks |-> l = m]

InitNoLinks ==
    /\ links = <<>>
    /\ currentPath = HrefRoot
    /\ linkActive = <<>>
    /\ ariaCurrent = <<>>

InitNoReveal ==
    /\ stagger = <<>>
    /\ observed = {}
    /\ intersecting = <<>>
    /\ revealed = <<>>
    /\ transitionDelay = <<>>
    /\ revealCount = <<>>
    /\ reworked = <<>>

InitNoCounters ==
    /\ dataTarget = <<>>
    /\ text = <<>>
    /\ started = <<>>
    /\ target = <<>>
    /\ ticks = <<>>
    /\ cleared = <<>>
    /\ text0 = <<>>
    /\ writes = <<>>
    /\ lastShown = <<>>
    /\ prevShown = <<>>

InitNoForms ==
    /\ label = <<>>
    /\ disabled = <<>>
    /\ loading = <<>>
    /\ fields = <<>>
    /\ submissions = <<>>
    /\ label0 = <<>>
    /\ notes = <<>>

InitNoData ==
    /\ payload = EmptyPayload
    /\ present = {}
    /\ fetchState = "idle"
    /\ fetchOutcome = "none"
    /\ elemText = [e \in Elements |-> OldText]
    /\ elemText0 = elemText
    /\ warnings = 0

\* a page without the animations script
InitNoAnim ==
    /\ gsapLoaded = FALSE
    /\ animListener = FALSE
    /\ animInitRuns = 0
    /\ animSetups = {}
    /\ defaultsDuration = -1
    /\ setDuration = -1
    /\ visListener = FALSE
    /\ motionListener = FALSE
    /\ hidden = FALSE
    /\ reducedMotion = FALSE
    /\ timelinePaused = FALSE
    /\ animWarnings = 0
    /\ animErrors = {}
    /\ visHandled = FALSE
    /\ animDom = {}
    /\ tweens = <<>>
    /\ style = <<>>
    /\ pointer = <<>>
    /\ clicks = <<>>
    /\ navigations = <<>>

(* ---------------------- timeline animation engine ---------------------- *)
\* "top 80%" / "top 85%": the scroll offset at which the top of element e
\* reaches pct percent of the viewport height
StartOffset(e, pct) == ElementTop[e] - (pct * ViewportHeight) \div 100

\* gsap.fromTo(target, fromVars, toVars) and timeline.from(target, fromVars):
\* a tween from the given start values to the identity values; one with a
\* scrollTrigger waits for its trigger, any other starts after its delay
FromTo(kind, e, props, dur, delay, triggered, start) ==
    [kind |-> kind, target |-> e, props |-> props, from |-> "start", to |-> "identity",
     dur |-> dur, pos |-> 0 - delay, state |-> IF triggered THEN "idle" ELSE "playing",
     triggered |-> triggered, start |-> start, click |-> 0, varsDur |-> dur]

\* gsap.to(target, vars): a tween from the current values to the given ones
To(kind, e, props, to, dur, click) ==
    [kind |-> kind, target |-> e, props |-> props, from |-> "current", to |-> to,
     dur |-> dur, pos |-> 0, state |-> "playing",
     triggered |-> FALSE, start |-> 0, click |-> click, varsDur |-> dur]

\* animateHero: the entrance timeline, here its first tween (the title)
animateHero(dom) ==
    IF "heroTitle" \in dom
      THEN <<FromTo("hero", "heroTitle", {"y", "opacity"}, HeroTitleDuration, 0, FALSE, 0)>>
      ELSE <<>>

\* animateSection for one selector of a section: a fromTo tween whose to-vars
\* are y, x, opacity and scale, triggered by the group's first element
animateSection(dom, e) ==
    IF e \in dom
      THEN <<FromTo("section", e, {"x", "y", "opacity", "scale"}, SectionDuration, 0,
                    TRUE, StartOffset(e, SectionStart))>>
      ELSE <<>>

\* animateScrollElements: the problem, solution and benefits sections
animateScrollElements(dom) ==
    animateSection(dom, "problemTitle") \o animateSection(dom, "solutionTitle")
        \o animateSection(dom, "benefit")

\* animateCards: the entrance tween of every .card, .benefit, ... element,
\* triggered by the element itself
CardEntrance(dom, e) ==
    IF e \in dom
      THEN <<FromTo("card", e, {"y", "opacity", "scale"}, CardDuration, 0,
                    TRUE, StartOffset(e, CardStart))>>
      ELSE <<>>

animateCards(dom) == CardEntrance(dom, "card") \o CardEntrance(dom, "benefit")

\* setupPageTransitions: the fade-in of main on page load
setupPageTransitions(dom) ==
    IF "main" \in dom
      THEN <<FromTo("fadeIn", "main", {"opacity", "scale"}, FadeInDuration, FadeInDelay,
                    FALSE, 0)>>
      ELSE <<>>

\* endValue.replace('%', ''): the text without its first "%"
RECURSIVE RemoveFirst(_, _)
RemoveFirst(str, ch) ==
    IF str = <<>> THEN <<>>
    ELSE IF Head(str) = ch THEN Tail(str)
    ELSE <<Head(str)>> \o RemoveFirst(Tail(str), ch)

\* endValue.replace(/[^0-9]/g, ''): the digits of the text
DigitsOnly(str) == SelectSeq(str, LAMBDA ch : ch \in Digits)

\* the branch of animateStats a text takes
StatFormat(txt) ==
    IF Includes(txt, "%") THEN "%" ELSE IF Includes(txt, "$") THEN "$" ELSE "plain"

\* numericValue of animateStats
StatEnd(txt) ==
    IF StatFormat(txt) = "%" THEN parseInt(RemoveFirst(txt, "%"))
    ELSE parseInt(DigitsOnly(txt))

StatDelay(txt) ==
    IF StatFormat(txt) = "%" THEN StatDelayPercent
    ELSE IF StatFormat(txt) = "$" THEN StatDelayCurrency
    ELSE StatDelayPlain

\* animateStats for the stat element with text txt: a fromTo tween of its
\* textContent from 0 to the number in the text, none when that is NaN
animateStats(dom, txt) ==
    IF "stat" \in dom /\ ~StatEnd(txt).nan
      THEN <<FromTo("stat", "stat", {"textContent"}, StatDuration, StatDelay(txt), FALSE, 0)
               @@ [end |-> StatEnd(txt).val, format |-> StatFormat(txt)]>>
      ELSE <<>>

\* the number a stat tween gives textContent at its playhead: ease
\* power2.out, 1 - (1 - p)^3, snapped to the nearest integer
StatValue(tw) ==
    IF tw.pos >= tw.dur THEN tw.end
    ELSE IF tw.pos <= 0 THEN 0
    ELSE LET d3 == tw.dur * tw.dur * tw.dur
             r3 == (tw.dur - tw.pos) * (tw.dur - tw.pos) * (tw.dur - tw.pos)
         IN (2 * tw.end * (d3 - r3) + d3) \div (2 * d3)

\* the text of the element after an update of the tween: onUpdate rounds
\* the number and adds the signs of the format; the plain branch has no
\* onUpdate
StatText(tw) ==
    IF tw.format = "%" THEN NumberToString(Num(StatValue(tw))) \o <<"%">>
    ELSE IF tw.format = "$" THEN <<"$">> \o NumberToString(Num(StatValue(tw))) \o <<"M">>
    ELSE NumberToString(Num(StatValue(tw)))

\* a write of the number x as text txt into counter element c
WriteText(c, x, txt) ==
    /\ text' = [text EXCEPT ![c] = txt]
    /\ writes' = [writes EXCEPT ![c] = writes[c] + 1]
    /\ prevShown' = [prevShown EXCEPT ![c] = lastShown[c]]
    /\ lastShown' = [lastShown EXCEPT ![c] = Num(x)]

\* ScrollTrigger with toggleActions "play none none reverse" at scroll
\* offset y: a triggered tween plays once the offset is at or past its
\* start and reverses once the offset is before it again
OnScroll(tw, y) ==
    IF ~tw.triggered THEN tw
    ELSE IF y >= tw.start
      THEN IF tw.state \in {"idle", "reversing"} THEN [tw EXCEPT !.state = "playing"] ELSE tw
      ELSE IF tw.state \in {"playing", "done"} THEN [tw EXCEPT !.state = "reversing"] ELSE tw

ScrollTriggers(tws, y) == [i \in DOMAIN tws |-> OnScroll(tws[i], y)]

Active(tw) == tw.state \in {"playing", "reversing"}

Min(a, b) == IF a <= b THEN a ELSE b

\* one tick of the engine moves the playhead of an active tween by d
Advance(tw, d) ==
    IF tw.state = "playing"
      THEN [tw EXCEPT !.pos = Min(tw.dur, tw.pos + d),
                      !.state = IF tw.pos + d >= tw.dur THEN "done" ELSE "playing"]
    ELSE IF tw.state = "reversing"
      THEN [tw EXCEPT !.pos = Max(0, tw.pos - d),
                      !.state = IF tw.pos - d <= 0 THEN "idle" ELSE "reversing"]
    ELSE tw

\* the value a tween gives its properties at its playhead
ValueAt(tw) ==
    IF tw.pos >= tw.dur THEN tw.to ELSE IF tw.pos <= 0 THEN tw.from ELSE "mid"

\* a tween renders when its playhead has moved inside its span
Renders(old, new) == Active(old) /\ (new.pos > 0 \/ old.pos > 0)

\* the stat tween among the tweens tws, if any
StatTweens(tws) == SelectSeq(tws, LAMBDA tw : tw.kind = "stat")

\* the stat tween's write in a tick of the engine that takes the tweens
\* from old to new
StatRender(old, new) ==
    IF \E i \in DOMAIN old : old[i].kind = "stat" /\ Renders(old[i], new[i])
      THEN LET tw == StatTweens(new)[1]
           IN WriteText(StatCounter, StatValue(tw), StatText(tw))
      ELSE UNCHANGED <<text, writes, lastShown, prevShown>>

\* the tweens render in the order in which they were created: every tween
\* writes its properties, so of two tweens of one property the one created
\* later is the one seen (gsap 3 does not overwrite: overwrite is false)
RECURSIVE Render(_, _, _, _)
Render(st, old, new, i) ==
    IF i > Len(old) THEN st
    ELSE IF Renders(old[i], new[i])
      THEN Render([st EXCEPT ![new[i].target] =
                      [p \in DOMAIN st[new[i].target] |->
                          IF p \in new[i].props THEN ValueAt(new[i])
                          ELSE st[new[i].target][p]]],
                  old, new, i + 1)
      ELSE Render(st, old, new, i + 1)

\* immediateRender of from / fromTo tweens: the start values are written
\* when the tween is created
RECURSIVE RenderStart(_, _, _)
RenderStart(st, tws, i) ==
    IF i > Len(tws) THEN st
    ELSE RenderStart([st EXCEPT ![tws[i].target] =
                         [p \in DOMAIN st[tws[i].target] |->
                             IF p \in tws[i].props THEN "start"
                             ELSE st[tws[i].target][p]]],
                     tws, i + 1)

\* a finished tween leaves the timeline, unless a ScrollTrigger holds it
Kept(tw) == tw.triggered \/ tw.state # "done"

\* onComplete of the fade-out tweens that have just finished:
\* window.location.href = link.href
OnCompleteAtOnce(tw) == tw.kind = "fadeOut"

Completed(tw) == tw.kind = "fadeOut" /\ tw.state = "done"

Assignments(tws) ==
    LET fin == SelectSeq(tws, Completed)
    IN [i \in DOMAIN fin |->
           [href |-> clicks[fin[i].click].href, click |-> fin[i].click,
            cause |-> "fade", elapsed |-> fin[i].pos]]

\* new SquareAnimations(): initGSAP sets the defaults or warns, and
\* setupAnimations runs its six set-up routines only when gsap is defined;
\* the fromTo of animateStats renders its start at once (immediateRender),
\* with its onUpdate
SquareAnimations ==
    /\ defaultsDuration' = IF gsapLoaded THEN DefaultDuration ELSE defaultsDuration
    /\ animWarnings' = IF gsapLoaded THEN animWarnings ELSE animWarnings + 1
    /\ animSetups' = IF gsapLoaded THEN AnimationSetups ELSE animSetups
    /\ LET stats == IF "stat" \in animDom THEN animateStats(animDom, text[StatCounter])
                     ELSE <<>>
           new == animateHero(animDom) \o animateScrollElements(animDom) \o stats
                    \o animateCards(animDom) \o setupPageTransitions(animDom)
       IN IF gsapLoaded
            THEN /\ tweens' = tweens \o ScrollTriggers(new, scrollY)
                 /\ style' = RenderStart(style, new, 1)
                 /\ IF stats # <<>>
                      THEN WriteText(StatCounter, StatValue(stats[1]), StatText(stats[1]))
                      ELSE UNCHANGED <<text, writes, lastShown, prevShown>>
            ELSE UNCHANGED <<tweens, style, text, writes, lastShown, prevShown>>

\* setupPerformanceOptimizations: the visibilitychange listener
setupPerformanceOptimizations == visListener' = TRUE

\* setupAccessibility: with the reduced-motion preference matching, gsap.set
\* is called at once, which throws when gsap is not defined, before the
\* change listener is registered.  gsap.set("*", {duration}) is a tween of
\* length zero on every element that sets no property: the tweens of the
\* timeline keep the durations they were created with
setupAccessibility ==
    IF reducedMotion /\ ~gsapLoaded
      THEN /\ animErrors' = animErrors \cup {"init"}
           /\ UNCHANGED <<setDuration, motionListener>>
      ELSE /\ setDuration' = IF reducedMotion THEN ReducedDuration ELSE setDuration
           /\ motionListener' = TRUE
           /\ UNCHANGED animErrors

\* the DOMContentLoaded listener of the animations script
AnimInitializer ==
    /\ animInitRuns' = animInitRuns + 1
    /\ SquareAnimations
    /\ setupPerformanceOptimizations
    /\ setupAccessibility
    /\ UNCHANGED <<gsapLoaded, animListener, hidden, reducedMotion, timelinePaused,
                   visHandled, animDom, pointer, clicks, navigations,
                   debVars>>

\* the animations script runs: it registers its DOMContentLoaded listener
AnimScript ==
    /\ ~animListener
    /\ animListener' = TRUE
    /\ UNCHANGED <<docVars, linkVars, menuVars, scrollVars, timeVars, lastEvent, menuHist,
                   scrollHist, revealVars, counterVars, formVars, noteVars, dataVars,
                   gsapLoaded, animInitRuns, animSetups, defaultsDuration, setDuration,
                   visListener, motionListener, hidden, reducedMotion, timelinePaused,
                   animWarnings, animErrors, visHandled, animDom, tweenVars,
                   debVars>>

\* the listener's choice for a page that is hidden (h) or visible:
\* gsap.globalTimeline.pause() or resume()
PausedAfterNever(h) == FALSE

PausedAfter(h) == h

\* the page is hidden or shown again: gsap.globalTimeline.pause() / resume(),
\* evaluated whether or not gsap is defined
VisibilityChange ==
    /\ hidden' = ~hidden
    /\ visHandled' = (visHandled \/ visListener)
    /\ IF ~visListener THEN UNCHANGED <<timelinePaused, animErrors>>
       ELSE IF ~gsapLoaded
         THEN animErrors' = animErrors \cup {"visibilitychange"} /\ UNCHANGED timelinePaused
         ELSE timelinePaused' = PausedAfter(hidden') /\ UNCHANGED animErrors
    /\ lastEvent' = [type |-> "visibilitychange", anchor |-> FALSE, wasOpen |-> menuOpen]
    /\ UNCHANGED <<docVars, linkVars, menuVars, scrollVars, timeVars, menuHist,
                   scrollHist, revealVars, counterVars, formVars, noteVars, dataVars,
                   gsapLoaded, animListener, animInitRuns, animSetups, defaultsDuration,
                   setDuration, visListener, motionListener, reducedMotion, animWarnings,
                   animDom, tweenVars,
                   debVars>>

\* a change listener whose gsap.set("*", {duration}) gives every tween of
\* the timeline the duration it names
MotionPreferenceChangeRetimes ==
    /\ reducedMotion' = ~reducedMotion
    /\ IF ~motionListener THEN UNCHANGED <<setDuration, animErrors, tweens>>
       ELSE IF ~gsapLoaded
         THEN animErrors' = animErrors \cup {"change"} /\ UNCHANGED <<setDuration, tweens>>
         ELSE /\ setDuration' = IF reducedMotion' THEN ReducedDuration ELSE RestoredDuration
              /\ tweens' = [i \in DOMAIN tweens |->
                               [tweens[i] EXCEPT !.dur = setDuration',
                                                 !.pos = Min(tweens[i].pos, setDuration')]]
              /\ UNCHANGED animErrors
    /\ lastEvent' = [type |-> "motionchange", anchor |-> FALSE, wasOpen |-> menuOpen]
    /\ UNCHANGED <<docVars, linkVars, menuVars, scrollVars, timeVars, menuHist,
                   scrollHist, revealVars, counterVars, formVars, noteVars, dataVars,
                   gsapLoaded, animListener, animInitRuns, animSetups, defaultsDuration,
                   visListener, motionListener, hidden, timelinePaused, animWarnings,
                   visHandled, animDom, style, pointer, clicks, navigations,
                   debVars>>

\* the reduced-motion preference changes: gsap.set("*", {duration}),
\* evaluated whether or not gsap is defined; the tweens are left as they are
MotionPreferenceChange ==
    /\ reducedMotion' = ~reducedMotion
    /\ IF ~motionListener THEN UNCHANGED <<setDuration, animErrors>>
       ELSE IF ~gsapLoaded
         THEN animErrors' = animErrors \cup {"change"} /\ UNCHANGED setDuration
         ELSE /\ setDuration' = IF reducedMotion' THEN ReducedDuration ELSE RestoredDuration
              /\ UNCHANGED animErrors
    /\ lastEvent' = [type |-> "motionchange", anchor |-> FALSE, wasOpen |-> menuOpen]
    /\ UNCHANGED <<docVars, linkVars, menuVars, scrollVars, timeVars, menuHist,
                   scrollHist, revealVars, counterVars, formVars, noteVars, dataVars,
                   gsapLoaded, animListener, animInitRuns, animSetups, defaultsDuration,
                   visListener, motionListener, hidden, timelinePaused, animWarnings,
                   visHandled, animDom, tweenVars,
                   debVars>>

\* one tick of the engine's ticker, d/100 s after the last one: every active
\* tween advances and renders, finished tweens fire onComplete and leave the
\* timeline.  A paused global timeline does not advance
Frame(d) ==
    /\ ~timelinePaused
    /\ \E i \in DOMAIN tweens : Active(tweens[i])
    /\ LET adv == [i \in DOMAIN tweens |-> Advance(tweens[i], d)]
       IN /\ tweens' = SelectSeq(adv, Kept)
          /\ style' = Render(style, tweens, adv, 1)
          /\ navigations' = navigations \o Assignments(adv)
          /\ StatRender(tweens, adv)
    /\ lastEvent' = [type |-> "frame", anchor |-> FALSE, wasOpen |-> menuOpen]
    /\ UNCHANGED <<docVars, linkVars, menuVars, scrollVars, timeVars, menuHist,
                   scrollHist, revealVars, dataTarget, started, target, ticks, cleared,
                   text0, formVars, noteVars, dataVars,
                   animCtl, pointer, clicks,
                   debVars>>

\* the tweens a mouseenter listener starts on element e
EnterTweens(e) ==
    IF e = "card"
      THEN <<To("hover", e, {"y", "scale"}, "hover", CardHoverDuration, 0)>>
    ELSE IF e = "cta"
      THEN <<To("hover", e, {"scale"}, "hover", ButtonHoverDuration, 0),
             To("hover", e, {"boxShadow"}, "hover", CtaShadowDuration, 0)>>
      ELSE <<To("hover", e, {"scale"}, "hover", ButtonHoverDuration, 0)>>

\* the tween a mouseleave listener starts on element e
LeaveTweens(e) ==
    IF e = "card"
      THEN <<To("hover", e, {"y", "scale"}, "identity", CardHoverDuration, 0)>>
      ELSE <<To("hover", e, {"scale", "boxShadow"}, "identity", ButtonHoverDuration, 0)>>

\* the elements with hover listeners: cards once animateCards has run,
\* buttons once setupHoverAnimations has run
HoverListening(e) ==
    /\ e \in animDom \cap HoverElements
    /\ IF e = "card" THEN "animateCards" \in animSetups
       ELSE "setupHoverAnimations" \in animSetups

\* the pointer enters element e, whose listeners are registered
PointerEnter(e) ==
    /\ HoverListening(e)
    /\ pointer[e] # "enter"
    /\ Len(tweens) + 2 <= MaxTweens
    /\ pointer' = [pointer EXCEPT ![e] = "enter"]
    /\ tweens' = tweens \o EnterTweens(e)
    /\ lastEvent' = [type |-> "mouseenter", anchor |-> FALSE, wasOpen |-> menuOpen]
    /\ UNCHANGED <<docVars, linkVars, menuVars, scrollVars, timeVars, menuHist,
                   scrollHist, revealVars, counterVars, formVars, noteVars, dataVars,
                   animCtl, style, clicks, navigations,
                   debVars>>

\* the pointer leaves element e, whose listeners are registered
PointerLeave(e) ==
    /\ HoverListening(e)
    /\ pointer[e] # "leave"
    /\ Len(tweens) + 1 <= MaxTweens
    /\ pointer' = [pointer EXCEPT ![e] = "leave"]
    /\ tweens' = tweens \o LeaveTweens(e)
    /\ lastEvent' = [type |-> "mouseleave", anchor |-> FALSE, wasOpen |-> menuOpen]
    /\ UNCHANGED <<docVars, linkVars, menuVars, scrollVars, timeVars, menuHist,
                   scrollHist, revealVars, counterVars, formVars, noteVars, dataVars,
                   animCtl, style, clicks, navigations,
                   debVars>>

\* link.hostname === window.location.hostname
SameHost(l) == PageLinks[l].host = PageHost

\* a click on the link l of a[href^="/"]: the listener of setupPageTransitions
\* leaves a link of another host to the browser; otherwise it prevents the
\* default navigation and starts the fade-out of main, whose onComplete
\* assigns window.location.href.  Without the listener, and for the other
\* host, the browser follows the link at once
LinkClick(l) ==
    /\ Len(clicks) < MaxClicks
    /\ LET handled == "setupPageTransitions" \in animSetups /\ SameHost(l)
           c == Len(clicks) + 1
       IN /\ clicks' = Append(clicks, [link |-> l, href |-> PageLinks[l].href,
                                        sameHost |-> SameHost(l), prevented |-> handled])
          /\ tweens' = IF handled
                         THEN Append(tweens, To("fadeOut", "main", {"opacity", "scale"},
                                                "out", FadeOutDuration, c))
                         ELSE tweens
          /\ navigations' = IF handled THEN navigations
                            ELSE Append(navigations,
                                        [href |-> PageLinks[l].href, click |-> c,
                                         cause |-> "default", elapsed |-> 0])
    /\ lastEvent' = [type |-> "linkclick", anchor |-> FALSE, wasOpen |-> menuOpen]
    /\ UNCHANGED <<docVars, linkVars, menuVars, scrollVars, timeVars, menuHist,
                   scrollHist, revealVars, counterVars, formVars, noteVars, dataVars,
                   animCtl, style, pointer,
                   debVars>>

\* a scroll event at offset y on a page on which only ScrollTrigger listens
TriggerScroll(y) ==
    /\ ~constructed
    /\ y # scrollY
    /\ scrollY' = y
    /\ tweens' = ScrollTriggers(tweens, y)
    /\ lastEvent' = [type |-> "scroll", anchor |-> FALSE, wasOpen |-> menuOpen]
    /\ UNCHANGED <<docVars, linkVars, menuVars, navScrolled, heroTranslate2, inThrottle,
                   timeVars, menuHist, scrollHist, revealVars, counterVars, formVars,
                   noteVars, dataVars, animCtl, style, pointer, clicks, navigations,
                   debVars>>

\* no debounced function in use (the page wraps none)
InitNoDebounce ==
    /\ debCalls = <<>>
    /\ debInvoked = <<>>

(* ----------------------------- navigation ------------------------------ *)
\* updateActiveNavigation: every .nav__link is first cleared, then marked
\* when its path equals the page path
updateActiveNavigationNoClear ==
    /\ linkActive' = [l \in DOMAIN links |->
            linkActive[l] \/ Pathname(links[l].href, currentPath) = currentPath]
    /\ ariaCurrent' = [l \in DOMAIN links |->
            ariaCurrent[l] \/ Pathname(links[l].href, currentPath) = currentPath]

updateActiveNavigation ==
    /\ linkActive' = [l \in DOMAIN links |->
            \/ Pathname(links[l].href, currentPath) = currentPath
            \/ (currentPath = HrefRoot /\ Pathname(links[l].href, currentPath) = HrefRoot)]
    /\ ariaCurrent' = [l \in DOMAIN links |->
            \/ Pathname(links[l].href, currentPath) = currentPath
            \/ (currentPath = HrefRoot /\ Pathname(links[l].href, currentPath) = HrefRoot)]

\* setupScrollReveal: one observer, observing every .scroll-reveal element
setupScrollReveal == observed' = DOMAIN stagger

\* onDOMReady: scroll reveal is set up
onDOMReady ==
    /\ domReadyRuns' = domReadyRuns + 1
    /\ setupScrollReveal

NoDOMReady == UNCHANGED <<domReadyRuns, observed>>

\* an init() that registers the DOMContentLoaded listener whatever the
\* readyState is
ConstructListensOnly ==
    /\ ~constructed
    /\ constructed' = TRUE
    /\ updateActiveNavigation
    /\ fetchState' = "pending"
    /\ loadListener' = TRUE
    /\ domReadyListener' = TRUE
    /\ NoDOMReady
    /\ UNCHANGED <<readyState, loadAt, pageKind, links, currentPath, menuVars, scrollVars,
                   timeVars,
                   lastEvent, menuHist, scrollHist, stagger, intersecting, revealed,
                   transitionDelay, revealCount, reworked, counterVars,
                   formVars, noteVars,
                   payload, present, fetchOutcome, elemText, elemText0, warnings,
                   animVars,
                   debVars>>

\* new SquareWebsite(): init() registers the handlers, highlights the
\* active link and requests the company data; onDOMReady runs at once
\* unless the document is loading
Construct ==
    /\ ~constructed
    /\ constructed' = TRUE
    /\ updateActiveNavigation
    /\ fetchState' = "pending"
    /\ loadListener' = TRUE
    /\ IF readyState = "loading"
         THEN domReadyListener' = TRUE /\ NoDOMReady
         ELSE domReadyListener' = domReadyListener /\ onDOMReady
    /\ UNCHANGED <<readyState, loadAt, pageKind, links, currentPath, menuVars, scrollVars,
                   timeVars,
                   lastEvent, menuHist, scrollHist, stagger, intersecting, revealed,
                   transitionDelay, revealCount, reworked, counterVars,
                   formVars, noteVars,
                   payload, present, fetchOutcome, elemText, elemText0, warnings,
                   animVars,
                   debVars>>

\* click on #nav-toggle
ToggleClickStaleOverflow ==
    /\ constructed
    /\ toggleRun < MaxToggleRun
    /\ LET isOpen == ~toggleActive IN
         /\ toggleActive' = isOpen
         /\ menuOpen' = ~menuOpen
         /\ ariaExpanded' = BoolToString(isOpen)
         /\ bodyOverflow' = IF isOpen THEN "hidden" ELSE bodyOverflow
    /\ lastEvent' = [type |-> "toggle", anchor |-> FALSE, wasOpen |-> menuOpen]
    /\ toggleRun' = toggleRun + 1
    /\ runStart' = IF toggleRun = 0 THEN MenuState ELSE runStart
    /\ UNCHANGED <<docVars, linkVars, scrollVars, timeVars, scrollHist,
                   revealVars, counterVars,
                   formVars, noteVars,
                   dataVars,
                   animVars,
                   debVars>>

ToggleClick ==
    /\ constructed
    /\ toggleRun < MaxToggleRun
    /\ LET isOpen == ~toggleActive IN     \* classList.toggle returns the new state
         /\ toggleActive' = isOpen
         /\ menuOpen' = ~menuOpen         \* toggled on its own
         /\ ariaExpanded' = BoolToString(isOpen)
         /\ bodyOverflow' = IF isOpen THEN "hidden" ELSE ""
    /\ lastEvent' = [type |-> "toggle", anchor |-> FALSE, wasOpen |-> menuOpen]
    /\ toggleRun' = toggleRun + 1
    /\ runStart' = IF toggleRun = 0 THEN MenuState ELSE runStart
    /\ UNCHANGED <<docVars, linkVars, scrollVars, timeVars, scrollHist,
                   revealVars, counterVars,
                   formVars, noteVars,
                   dataVars,
                   animVars,
                   debVars>>

\* the smooth-scrolling click handler of an a[href^="#"]: scrolls to the
\* target element when there is one (targetId = href.substring(1))
SmoothScrollTo(href) ==
    IF IsAnchor(href) /\ Tail(href) \in AnchorTargets THEN AnchorPosition ELSE scrollY

\* click on a link inside #nav-mobile: the closing handler, then (for an
\* in-page anchor) the smooth-scrolling handler, in registration order
MenuLinkClickKeepsToggle(l) ==
    /\ constructed
    /\ links[l].inMobile
    /\ toggleActive' = toggleActive
    /\ menuOpen' = FALSE
    /\ ariaExpanded' = "false"
    /\ bodyOverflow' = ""
    /\ scrollY' = SmoothScrollTo(links[l].href)
    /\ lastEvent' = [type |-> "menulink", anchor |-> IsAnchor(links[l].href),
                     wasOpen |-> menuOpen]
    /\ toggleRun' = 0
    /\ runStart' = runStart
    /\ UNCHANGED <<docVars, linkVars, navScrolled, heroTranslate2, inThrottle,
                   timeVars, scrollHist,
                   revealVars, counterVars,
                   formVars, noteVars,
                   dataVars,
                   animVars,
                   debVars>>

MenuLinkClickKeepsScrollLock(l) ==
    /\ constructed
    /\ links[l].inMobile
    /\ toggleActive' = FALSE
    /\ menuOpen' = FALSE
    /\ ariaExpanded' = "false"
    /\ bodyOverflow' = bodyOverflow
    /\ scrollY' = SmoothScrollTo(links[l].href)
    /\ lastEvent' = [type |-> "menulink", anchor |-> IsAnchor(links[l].href),
                     wasOpen |-> menuOpen]
    /\ toggleRun' = 0
    /\ runStart' = runStart
    /\ UNCHANGED <<docVars, linkVars, navScrolled, heroTranslate2, inThrottle,
                   timeVars, scrollHist,
                   revealVars, counterVars,
                   formVars, noteVars,
                   dataVars,
                   animVars,
                   debVars>>

MenuLinkClick(l) ==
    /\ constructed
    /\ links[l].inMobile
    /\ toggleActive' = FALSE
    /\ menuOpen' = FALSE
    /\ ariaExpanded' = "false"
    /\ bodyOverflow' = ""
    /\ scrollY' = SmoothScrollTo(links[l].href)
    /\ lastEvent' = [type |-> "menulink", anchor |-> IsAnchor(links[l].href),
                     wasOpen |-> menuOpen]
    /\ toggleRun' = 0
    /\ runStart' = runStart
    /\ UNCHANGED <<docVars, linkVars, navScrolled, heroTranslate2, inThrottle,
                   timeVars, scrollHist,
                   revealVars, counterVars,
                   formVars, noteVars,
                   dataVars,
                   animVars,
                   debVars>>

\* the same click, also clearing the scroll lock
AnchorClickUnlocks(l) ==
    /\ constructed
    /\ ~links[l].inMobile
    /\ IsAnchor(links[l].href)
    /\ bodyOverflow' = ""
    /\ scrollY' = SmoothScrollTo(links[l].href)
    /\ lastEvent' = [type |-> "anchor", anchor |-> TRUE, wasOpen |-> menuOpen]
    /\ toggleRun' = 0
    /\ runStart' = runStart
    /\ UNCHANGED <<docVars, linkVars, toggleActive, menuOpen, ariaExpanded, navScrolled,
                   heroTranslate2, inThrottle,
                   timeVars, scrollHist,
                   revealVars, counterVars,
                   formVars, noteVars,
                   dataVars,
                   animVars,
                   debVars>>

\* click on an in-page anchor outside the mobile menu: smooth scrolling only
AnchorClick(l) ==
    /\ constructed
    /\ ~links[l].inMobile
    /\ IsAnchor(links[l].href)
    /\ scrollY' = SmoothScrollTo(links[l].href)
    /\ lastEvent' = [type |-> "anchor", anchor |-> TRUE, wasOpen |-> menuOpen]
    /\ toggleRun' = 0
    /\ runStart' = runStart
    /\ UNCHANGED <<docVars, linkVars, menuVars, navScrolled, heroTranslate2, inThrottle,
                   timeVars, scrollHist,
                   revealVars, counterVars,
                   formVars, noteVars,
                   dataVars,
                   animVars,
                   debVars>>

NextMenu ==
    \/ Construct
    \/ ToggleClick
    \/ \E l \in DOMAIN links : MenuLinkClick(l)
    \/ \E l \in DOMAIN links : AnchorClick(l)

MenuInit == InitDoc /\ InitMenu /\ InitScroll /\ InitLinks /\ InitNoReveal /\ InitNoCounters /\ InitNoForms /\ InitNoData /\ InitNoAnim /\ InitNoDebounce

SpecMenu == MenuInit /\ [][NextMenu]_vars

(* ------------------------------- scroll -------------------------------- *)
\* handleScroll: nav--scrolled is added above the threshold, removed otherwise
handleScrollSticky(y) == navScrolled \/ y > ScrollThreshold

handleScroll(y) == y > ScrollThreshold

\* handleParallax: rate = scrolled * -0.5, applied while scrolled < heroHeight
handleParallax(y) == IF y < HeroHeight THEN 0 - y ELSE heroTranslate2

\* throttle(func, limit): the wrapper runs func only when !inThrottle
ThrottleNeverCloses(w) == TRUE

ThrottleOpen(w) == ~inThrottle[w]

Cooldown(w, limit) == [kind |-> "cooldown", who |-> w, idx |-> 0, due |-> now + limit]

\* a scroll event at offset y: the two throttled listeners of the window, in
\* registration order (navigation, then parallax), and ScrollTrigger
ScrollEvent(y) ==
    /\ constructed
    /\ ThrottleOpen("nav") \/ suppressed < MaxBurst
    /\ scrollY' = y
    /\ tweens' = ScrollTriggers(tweens, y)
    /\ navScrolled' = IF ThrottleOpen("nav") THEN handleScroll(y) ELSE navScrolled
    /\ heroTranslate2' = IF ThrottleOpen("parallax") THEN handleParallax(y)
                         ELSE heroTranslate2
    /\ inThrottle' = [w \in DOMAIN inThrottle |-> TRUE]
    /\ LET q == IF ThrottleOpen("nav")
                  THEN InsertTimer(timers, Cooldown("nav", NavThrottleLimit))
                  ELSE timers
       IN timers' = IF ThrottleOpen("parallax")
                      THEN InsertTimer(q, Cooldown("parallax", ParallaxThrottleLimit))
                      ELSE q
    /\ IF ThrottleOpen("nav")
         THEN /\ evalCount' = evalCount + 1
              /\ prevEvalAt' = lastEvalAt
              /\ lastEvalAt' = now
              /\ suppressed' = 0
         ELSE /\ suppressed' = suppressed + 1
              /\ UNCHANGED <<evalCount, prevEvalAt, lastEvalAt,
                   revealVars, counterVars>>
    /\ lastEvent' = [type |-> "scroll", anchor |-> FALSE, wasOpen |-> menuOpen]
    /\ UNCHANGED <<docVars, linkVars, menuVars, now, menuHist,
                   revealVars, counterVars,
                   formVars, noteVars,
                   dataVars,
                   animCtl, style, pointer, clicks, navigations,
                   debVars>>

\* the cooldown timer of a throttle closure fires: inThrottle = false
CooldownExpire ==
    /\ timers # <<>>
    /\ Head(timers).kind = "cooldown"
    /\ Max(now, Head(timers).due) <= MaxTime
    /\ now' = Max(now, Head(timers).due)
    /\ inThrottle' = [inThrottle EXCEPT ![Head(timers).who] = FALSE]
    /\ timers' = Tail(timers)
    /\ lastEvent' = [type |-> "cooldown", anchor |-> FALSE, wasOpen |-> menuOpen]
    /\ UNCHANGED <<docVars, linkVars, menuVars, scrollY, navScrolled, heroTranslate2,
                   menuHist, scrollHist,
                   revealVars, counterVars,
                   formVars, noteVars,
                   dataVars,
                   animVars,
                   debVars>>

\* time passes without any handler running
Tick(d) ==
    /\ now + d <= MaxTime
    /\ now' = now + d
    /\ UNCHANGED <<docVars, linkVars, menuVars, scrollVars, timers, lastEvent,
                   menuHist, scrollHist,
                   revealVars, counterVars,
                   formVars, noteVars,
                   dataVars,
                   animVars,
                   debVars>>

NextScroll ==
    \/ Construct
    \/ \E y \in ScrollOffsets : ScrollEvent(y)
    \/ CooldownExpire
    \/ \E d \in TickSteps : Tick(d)

ScrollInit == InitDoc /\ InitMenu /\ InitScroll /\ InitNoLinks /\ InitNoReveal /\ InitNoCounters /\ InitNoForms /\ InitNoData /\ InitNoAnim /\ InitNoDebounce

SpecScroll == ScrollInit /\ [][NextScroll]_vars

(* ---------------------------- scroll reveal ---------------------------- *)
\* entry.target.dataset.stagger || 0: a missing or empty attribute gives 0
StaggerDelay(e) == IF stagger[e] = <<>> THEN Num(0) ELSE ToNumber(stagger[e])

\* the class after one entry of the observer callback: added when the entry
\* is intersecting, never removed
RevealedAfterFollowsEntry(e, isIn) == isIn

RevealedAfter(e, isIn) == revealed[e] \/ isIn

\* transitionDelay after one entry: stagger * 0.1 s when intersecting and
\* staggerDelay > 0
DelayAfter(e, isIn) ==
    IF isIn /\ ~StaggerDelay(e).nan /\ StaggerDelay(e).val > 0
      THEN StaggerDelay(e).val
      ELSE transitionDelay[e]

\* elements the observer stops observing in a callback: none, the callback
\* never calls unobserve
UnobservedBy(S, inS) == {}

\* the observer callback with entries for the elements S whose intersection
\* state changed (or is reported for the first time); inS are those now
\* intersecting
RevealCallback(S, inS) ==
    /\ S # {}
    /\ S \subseteq observed
    /\ inS \subseteq S
    /\ \A e \in S : intersecting[e] # (IF e \in inS THEN "in" ELSE "out")
    /\ intersecting' = [e \in DOMAIN intersecting |->
            IF e \in S THEN (IF e \in inS THEN "in" ELSE "out") ELSE intersecting[e]]
    /\ revealed' = [e \in DOMAIN revealed |->
            IF e \in S THEN RevealedAfter(e, e \in inS) ELSE revealed[e]]
    /\ transitionDelay' = [e \in DOMAIN transitionDelay |->
            IF e \in S THEN DelayAfter(e, e \in inS) ELSE transitionDelay[e]]
    /\ observed' = observed \ UnobservedBy(S, inS)
    /\ revealCount' = [e \in DOMAIN revealCount |->
            IF e \in S /\ ~revealed[e] /\ RevealedAfter(e, e \in inS)
              THEN revealCount[e] + 1 ELSE revealCount[e]]
    /\ reworked' = [e \in DOMAIN reworked |->
            reworked[e] \/ (e \in inS /\ revealed[e])]
    /\ lastEvent' = [type |-> "reveal", anchor |-> FALSE, wasOpen |-> menuOpen]
    /\ UNCHANGED <<docVars, linkVars, menuVars, scrollVars, timeVars, menuHist,
                   scrollHist, stagger, counterVars,
                   formVars, noteVars,
                   dataVars,
                   animVars,
                   debVars>>

\* the document has been parsed: the DOMContentLoaded listeners of the main
\* script and of the animations script run
DOMContentLoaded ==
    /\ readyState = "loading"
    /\ readyState' = "interactive"
    /\ IF domReadyListener THEN onDOMReady ELSE NoDOMReady
    /\ IF animListener THEN AnimInitializer
       ELSE UNCHANGED <<animVars, text, writes, lastShown, prevShown>>
    /\ UNCHANGED <<constructed, domReadyListener, loadListener, loadAt, pageKind, linkVars,
                   menuVars,
                   scrollVars, timeVars, lastEvent, menuHist, scrollHist, stagger,
                   intersecting, revealed, transitionDelay, revealCount, reworked,
                   dataTarget, started, target, ticks, cleared, text0,
                   formVars, noteVars,
                   dataVars,
                   debVars>>

InitReveal ==
    /\ stagger \in [1..NumReveal -> StaggerAttrs]
    /\ observed = {}
    /\ intersecting = [e \in 1..NumReveal |-> "unknown"]
    /\ revealed = [e \in 1..NumReveal |-> FALSE]
    /\ transitionDelay = [e \in 1..NumReveal |-> -1]
    /\ revealCount = [e \in 1..NumReveal |-> 0]
    /\ reworked = [e \in 1..NumReveal |-> FALSE]

NextReveal ==
    \/ Construct
    \/ DOMContentLoaded
    \/ \E S \in SUBSET observed : \E inS \in SUBSET S : RevealCallback(S, inS)

RevealInit == InitDoc /\ InitMenu /\ InitScroll /\ InitNoLinks /\ InitReveal /\ InitNoCounters /\ InitNoForms /\ InitNoData /\ InitNoAnim /\ InitNoDebounce

SpecReveal == RevealInit /\ [][NextReveal]_vars

(* ------------------------------ counters ------------------------------- *)
\* Sign of the rounding error that the repeated floating-point additions
\* current += target / 60 have accumulated (current minus the exact value).
\* target / 60 and all its multiples are exact in binary floating point when
\* 15 divides target; otherwise the sum may lie just below or just above the
\* exact value, and either is allowed here.
RoundingError(t) == IF t.nan \/ t.val % 15 = 0 THEN {0} ELSE {-1, 0, 1}

\* current >= target after k additions of the increment (false for NaN);
\* current = target and clearInterval follow when it holds
ReachedNever(t, k, err) == FALSE

Reached(t, k, err) ==
    /\ ~t.nan
    /\ \/ k * t.val > CounterFrames * t.val
       \/ (k * t.val = CounterFrames * t.val /\ err >= 0)

\* Math.floor(current) after k additions, current not clamped
FloorCurrent(t, k, err) ==
    IF t.nan THEN NaN
    ELSE IF (k * t.val) % CounterFrames = 0 /\ err < 0
      THEN Num(((k * t.val) \div CounterFrames) - 1)
      ELSE Num((k * t.val) \div CounterFrames)

\* the number a tick writes: the target once current has been clamped to it
Shown(t, k, err) == IF Reached(t, k, err) THEN t ELSE FloorCurrent(t, k, err)

\* the text a tick writes, from the element's text at that moment
FormatCounter(txt, x) ==
    IF Includes(txt, "%") THEN NumberToString(x) \o <<"%">>
    ELSE IF Includes(txt, "M") THEN <<"$">> \o NumberToString(x) \o <<"M">>
    ELSE NumberToString(x)

IntervalTimer(c, due) == [kind |-> "counter", who |-> "counter", idx |-> c, due |-> due]

\* the timer queue after a tick of counter c: clearInterval when the target
\* is reached, otherwise the interval fires again 50 ms later
TimersAfterTickNoClear(c, reached, q, t) == InsertTimer(q, IntervalTimer(c, t + CounterInterval))

TimersAfterTick(c, reached, q, t) ==
    IF reached THEN q ELSE InsertTimer(q, IntervalTimer(c, t + CounterInterval))

\* counters.forEach(startCounter): one interval per counter, in document order
RECURSIVE StartIntervals(_, _, _)
StartIntervals(q, c, t) ==
    IF c > Len(dataTarget) THEN q
    ELSE StartIntervals(InsertTimer(q, IntervalTimer(c, t + CounterInterval)), c + 1, t)

\* the settle timer set at time t: setTimeout(..., 500)
SettleTimerNoDelay(t) == [kind |-> "settle", who |-> "counters", idx |-> 0, due |-> t]

SettleTimer(t) == [kind |-> "settle", who |-> "counters", idx |-> 0, due |-> t + SettleDelay]

\* window load: the counters' listener sets the 500 ms settle timer
LoadEvent ==
    /\ readyState = "interactive"
    /\ readyState' = "complete"
    /\ loadAt' = now
    /\ timers' = IF loadListener THEN InsertTimer(timers, SettleTimer(now)) ELSE timers
    /\ lastEvent' = [type |-> "load", anchor |-> FALSE, wasOpen |-> menuOpen]
    /\ UNCHANGED <<constructed, domReadyListener, domReadyRuns, loadListener, pageKind, linkVars,
                   menuVars, scrollVars, now, menuHist, scrollHist, revealVars, counterVars,
                   formVars, noteVars,
                   dataVars,
                   animVars,
                   debVars>>

\* the settle timer fires: startCounter for every counter
SettleExpire ==
    /\ timers # <<>>
    /\ Head(timers).kind = "settle"
    /\ Max(now, Head(timers).due) <= MaxCounterTime
    /\ now' = Max(now, Head(timers).due)
    /\ target' = [c \in DOMAIN dataTarget |-> parseInt(dataTarget[c])]
    /\ started' = [c \in DOMAIN dataTarget |-> TRUE]
    /\ timers' = StartIntervals(Tail(timers), 1, now')
    /\ lastEvent' = [type |-> "settle", anchor |-> FALSE, wasOpen |-> menuOpen]
    /\ UNCHANGED <<docVars, linkVars, menuVars, scrollVars, menuHist, scrollHist,
                   revealVars, dataTarget, text, ticks, cleared, text0, writes,
                   lastShown, prevShown,
                   formVars, noteVars,
                   dataVars,
                   animVars,
                   debVars>>

\* one run of a counter's interval callback
CounterTick ==
    /\ timers # <<>>
    /\ Head(timers).kind = "counter"
    /\ Max(now, Head(timers).due) <= MaxCounterTime
    /\ now' = Max(now, Head(timers).due)
    /\ LET c == Head(timers).idx
           t == target[c]
           k == ticks[c] + 1
       IN \E err \in RoundingError(t) :
            /\ ticks' = [ticks EXCEPT ![c] = k]
            /\ cleared' = [cleared EXCEPT ![c] = Reached(t, k, err)]
            /\ timers' = TimersAfterTick(c, Reached(t, k, err), Tail(timers), now')
            /\ text' = [text EXCEPT ![c] = FormatCounter(text[c], Shown(t, k, err))]
            /\ writes' = [writes EXCEPT ![c] = writes[c] + 1]
            /\ prevShown' = [prevShown EXCEPT ![c] = lastShown[c]]
            /\ lastShown' = [lastShown EXCEPT ![c] = Shown(t, k, err)]
    /\ lastEvent' = [type |-> "tick", anchor |-> FALSE, wasOpen |-> menuOpen]
    /\ UNCHANGED <<docVars, linkVars, menuVars, scrollVars, menuHist, scrollHist,
                   revealVars, dataTarget, started, target, text0,
                   formVars, noteVars,
                   dataVars,
                   animVars,
                   debVars>>

InitCounters ==
    /\ dataTarget \in [1..NumCounters -> DataTargets]
    /\ text \in [1..NumCounters -> CounterTexts]
    /\ text0 = text
    /\ started = [c \in 1..NumCounters |-> FALSE]
    /\ target = [c \in 1..NumCounters |-> NaN]
    /\ ticks = [c \in 1..NumCounters |-> 0]
    /\ cleared = [c \in 1..NumCounters |-> FALSE]
    /\ writes = [c \in 1..NumCounters |-> 0]
    /\ lastShown = [c \in 1..NumCounters |-> Num(0)]
    /\ prevShown = [c \in 1..NumCounters |-> Num(0)]

NextCounter ==
    \/ Construct
    \/ DOMContentLoaded
    \/ LoadEvent
    \/ SettleExpire
    \/ CounterTick

CounterInit == InitDoc /\ InitMenu /\ InitScroll /\ InitNoLinks /\ InitNoReveal /\ InitCounters /\ InitNoForms /\ InitNoData /\ InitNoAnim /\ InitNoDebounce

SpecCounter == CounterInit /\ [][NextCounter]_vars

\* the event loop runs every timer that is due
FairSpecCounter ==
    CounterInit /\ [][NextCounter]_vars /\ WF_vars(SettleExpire) /\ WF_vars(CounterTick)

\* several counters on a page whose load event comes at any time of the
\* clock: time may pass before the script runs and before the load event
InitClockCounters ==
    /\ dataTarget \in [1..NumClockCounters -> ClockTargets]
    /\ text \in [1..NumClockCounters -> ClockTexts]
    /\ text0 = text
    /\ started = [c \in 1..NumClockCounters |-> FALSE]
    /\ target = [c \in 1..NumClockCounters |-> NaN]
    /\ ticks = [c \in 1..NumClockCounters |-> 0]
    /\ cleared = [c \in 1..NumClockCounters |-> FALSE]
    /\ writes = [c \in 1..NumClockCounters |-> 0]
    /\ lastShown = [c \in 1..NumClockCounters |-> Num(0)]
    /\ prevShown = [c \in 1..NumClockCounters |-> Num(0)]

NextCounterClock ==
    \/ Construct
    \/ DOMContentLoaded
    \/ LoadEvent
    \/ SettleExpire
    \/ CounterTick
    \/ \E d \in TickSteps : Tick(d)

CounterClockInit ==
    InitDoc /\ InitMenu /\ InitScroll /\ InitNoLinks /\ InitNoReveal /\ InitClockCounters
    /\ InitNoForms /\ InitNoData /\ InitNoAnim /\ InitNoDebounce

SpecCounterClock == CounterClockInit /\ [][NextCounterClock]_vars

(* --------------------------- notifications ----------------------------- *)
\* the element showNotification creates: class notification--<type>, entry
\* animation, appended to the body
Notification(type, t) ==
    [severity |-> type, inBody |-> TRUE, animation |-> "slideInRight",
     createdAt |-> t, exitAt |-> -1, removedAt |-> -1,
     exits |-> 0, removals |-> 0, threw |-> FALSE]

\* the timer that starts the exit animation of notification n, set at time t
ExitTimerAtOnce(n, t) == [kind |-> "noteExit", who |-> "note", idx |-> n, due |-> t]

ExitTimer(n, t) == [kind |-> "noteExit", who |-> "note", idx |-> n, due |-> t + NoteLifetime]

\* the nested timer that removes notification n, set at time t
RemovalTimer(n, t) == [kind |-> "noteRemove", who |-> "note", idx |-> n, due |-> t + ExitDuration]

\* the timer queue after showNotification has set the exit timer of its own
\* notification n
TimersAfterShowShared(q, n, t) ==
    InsertTimer(SelectSeq(q, LAMBDA x : x.kind # "noteExit"), ExitTimer(n, t))

TimersAfterShow(q, n, t) == InsertTimer(q, ExitTimer(n, t))

\* the timer queue after the exit callback of notification n has set the
\* removal timer
TimersAfterExitTwice(q, n, t) ==
    InsertTimer(InsertTimer(q, RemovalTimer(n, t)), RemovalTimer(n, t))

TimersAfterExit(q, n, t) == InsertTimer(q, RemovalTimer(n, t))

\* showNotification(message, type) at time t, q being the timers pending
showNotification(type, q, t) ==
    /\ notes' = Append(notes, Notification(type, t))
    /\ timers' = TimersAfterShow(q, Len(notes) + 1, t)

\* the 5000 ms timer of a notification fires: the exit animation is set and
\* the removal timer started
NoteExitExpire ==
    /\ timers # <<>>
    /\ Head(timers).kind = "noteExit"
    /\ now' = Max(now, Head(timers).due)
    /\ LET n == Head(timers).idx
       IN /\ notes' = [notes EXCEPT ![n].animation = "slideOutRight",
                                    ![n].exitAt = now',
                                    ![n].exits = @ + 1]
          /\ timers' = TimersAfterExit(Tail(timers), n, now')
    /\ lastEvent' = [type |-> "noteExit", anchor |-> FALSE, wasOpen |-> menuOpen]
    /\ UNCHANGED <<docVars, linkVars, menuVars, scrollVars, menuHist, scrollHist,
                   revealVars, counterVars, formVars,
                   dataVars,
                   animVars,
                   debVars>>

\* the 300 ms timer fires: document.body.removeChild(notification), which
\* throws when the element is not a child of the body
NoteRemoveExpire ==
    /\ timers # <<>>
    /\ Head(timers).kind = "noteRemove"
    /\ now' = Max(now, Head(timers).due)
    /\ LET n == Head(timers).idx
       IN notes' = [notes EXCEPT ![n].inBody = FALSE,
                                 ![n].removedAt = IF notes[n].inBody THEN now' ELSE @,
                                 ![n].removals = @ + 1,
                                 ![n].threw = @ \/ ~notes[n].inBody]
    /\ timers' = Tail(timers)
    /\ lastEvent' = [type |-> "noteRemove", anchor |-> FALSE, wasOpen |-> menuOpen]
    /\ UNCHANGED <<docVars, linkVars, menuVars, scrollVars, menuHist, scrollHist,
                   revealVars, counterVars, formVars,
                   dataVars,
                   animVars,
                   debVars>>

(* ---------------------------- contact forms ---------------------------- *)
\* the submissions of form f that have not completed
InFlight(f) == {s \in DOMAIN submissions : submissions[s].form = f /\ ~submissions[s].done}

\* the fields of form f after the try block: form.reset() follows the
\* success notification, the catch block leaves the fields alone
FieldsAfterKept(outcome, f) == fields[f]

FieldsAfter(outcome, f) == IF outcome = "resolved" THEN "empty" ELSE fields[f]

\* the severity of the notification a submission ends with
SeverityOf(outcome) == IF outcome = "resolved" THEN "success" ELSE "error"

\* a submit event on form f: the handler reads the control's label, shows
\* the busy state and awaits the 2000 ms promise
SubmitEvent(f) ==
    /\ constructed
    /\ Len(submissions) < MaxSubmits
    /\ submissions' = Append(submissions,
            [form |-> f, originalText |-> label[f], at |-> now, done |-> FALSE, note |-> 0])
    /\ label' = [label EXCEPT ![f] = BusyLabel]
    /\ disabled' = [disabled EXCEPT ![f] = TRUE]
    /\ loading' = [loading EXCEPT ![f] = TRUE]
    /\ timers' = InsertTimer(timers, [kind |-> "submit", who |-> "form",
                                      idx |-> Len(submissions) + 1, due |-> now + SubmitDelay])
    /\ lastEvent' = [type |-> "submit", anchor |-> FALSE, wasOpen |-> menuOpen]
    /\ UNCHANGED <<docVars, linkVars, menuVars, scrollVars, now, menuHist, scrollHist,
                   revealVars, counterVars, fields, label0, noteVars,
                   dataVars,
                   animVars,
                   debVars>>

\* the awaited promise of a submission settles: notification, form.reset()
\* on success, and the finally block restores the control
SubmitComplete ==
    /\ timers # <<>>
    /\ Head(timers).kind = "submit"
    /\ now' = Max(now, Head(timers).due)
    /\ LET s == Head(timers).idx
           f == submissions[s].form
       IN \E outcome \in SubmitOutcomes :
            /\ showNotification(SeverityOf(outcome), Tail(timers), now')
            /\ fields' = [fields EXCEPT ![f] = FieldsAfter(outcome, f)]
            /\ label' = [label EXCEPT ![f] = submissions[s].originalText]
            /\ disabled' = [disabled EXCEPT ![f] = FALSE]
            /\ loading' = [loading EXCEPT ![f] = FALSE]
            /\ submissions' = [submissions EXCEPT ![s].done = TRUE,
                                                  ![s].note = Len(notes) + 1]
    /\ lastEvent' = [type |-> "submitted", anchor |-> FALSE, wasOpen |-> menuOpen]
    /\ UNCHANGED <<docVars, linkVars, menuVars, scrollVars, menuHist, scrollHist,
                   revealVars, counterVars, label0,
                   dataVars,
                   animVars,
                   debVars>>

\* the visitor types into an empty form
FillForm(f) ==
    /\ fields[f] = "empty"
    /\ fields' = [fields EXCEPT ![f] = "filled"]
    /\ lastEvent' = [type |-> "input", anchor |-> FALSE, wasOpen |-> menuOpen]
    /\ UNCHANGED <<docVars, linkVars, menuVars, scrollVars, timeVars, menuHist, scrollHist,
                   revealVars, counterVars, label, disabled, loading, submissions, label0,
                   noteVars,
                   dataVars,
                   animVars,
                   debVars>>

InitForms ==
    /\ label \in [1..NumForms -> FormLabels]
    /\ label0 = label
    /\ disabled = [f \in 1..NumForms |-> FALSE]
    /\ loading = [f \in 1..NumForms |-> FALSE]
    /\ fields = [f \in 1..NumForms |-> "filled"]
    /\ submissions = <<>>
    /\ notes = <<>>

NextForm ==
    \/ Construct
    \/ \E f \in 1..NumForms : SubmitEvent(f)
    \/ SubmitComplete
    \/ NoteExitExpire
    \/ NoteRemoveExpire
    \/ \E f \in 1..NumForms : FillForm(f)
    \/ \E d \in TickSteps : Tick(d)

FormInit == InitDoc /\ InitMenu /\ InitScroll /\ InitNoLinks /\ InitNoReveal /\ InitNoCounters
            /\ InitForms /\ InitNoData /\ InitNoAnim /\ InitNoDebounce

SpecForm == FormInit /\ [][NextForm]_vars

\* the event loop runs every timer that is due
FairSpecForm ==
    FormInit /\ [][NextForm]_vars
    /\ WF_vars(SubmitComplete) /\ WF_vars(NoteExitExpire) /\ WF_vars(NoteRemoveExpire)

(* ------------------------ remote data hydration ------------------------ *)
\* a payload field is truthy: present and not the empty string
Truthy(x) == x.has /\ x.val # ""

\* what element.textContent = x leaves in the element: the string, or the
\* empty string when x is undefined
TextContent(x) == IF x.has THEN x.val ELSE ""

\* updateAchievements: the badge gets the title of the first achievement
updateAchievements(txt, achievements) ==
    IF "badge" \in present /\ Len(achievements.list) > 0
      THEN [txt EXCEPT !["badge"] = TextContent(achievements.list[1].title)]
      ELSE txt

\* if (element && field) element.textContent = field
SetIfTruthy(txt, e, x) ==
    IF e \in present /\ Truthy(x) THEN [txt EXCEPT ![e] = x.val] ELSE txt

updateBenefits(txt, benefits) ==
    SetIfTruthy(SetIfTruthy(SetIfTruthy(txt,
        "cost", benefits.cost_reduction),
        "energy", benefits.energy_reduction),
        "carbon", benefits.carbon_reduction)

updateMarketData(txt, marketData) ==
    SetIfTruthy(SetIfTruthy(SetIfTruthy(txt,
        "tam", marketData.total_addressable_market),
        "sam", marketData.serviceable_addressable_market),
        "som", marketData.serviceable_obtainable_market)

populateCompanyData(txt, data) ==
    LET t1 == IF data.achievements.has THEN updateAchievements(txt, data.achievements) ELSE txt
        t2 == IF data.benefits.has THEN updateBenefits(t1, data.benefits) ELSE t1
    IN IF data.market_data.has THEN updateMarketData(t2, data.market_data) ELSE t2

\* console.warn calls of loadCompanyData for one outcome of the request:
\* only the catch block logs
WarningsFor(o) == IF o \in {"rejected", "badjson"} THEN 1 ELSE 0

\* the request started by loadCompanyData settles: the fetch rejects, the
\* response is not ok, its body is not JSON, or the payload is applied
FetchSettle(o) ==
    /\ fetchState = "pending"
    /\ fetchState' = "settled"
    /\ fetchOutcome' = o
    /\ elemText' = IF o = "ok" THEN populateCompanyData(elemText, payload) ELSE elemText
    /\ warnings' = warnings + WarningsFor(o)
    /\ lastEvent' = [type |-> "fetch", anchor |-> FALSE, wasOpen |-> menuOpen]
    /\ UNCHANGED <<docVars, linkVars, menuVars, scrollVars, timeVars, menuHist, scrollHist,
                   revealVars, counterVars, formVars, noteVars, payload, present, elemText0,
                   animVars,
                   debVars>>

InitData ==
    /\ payload \in Payloads
    /\ present \in ElementSets
    /\ fetchState = "idle"
    /\ fetchOutcome = "none"
    /\ elemText = [e \in Elements |-> OldText]
    /\ elemText0 = elemText
    /\ warnings = 0

NextData ==
    \/ Construct
    \/ \E o \in FetchOutcomes : FetchSettle(o)

DataInit == InitDoc /\ InitMenu /\ InitScroll /\ InitNoLinks /\ InitNoReveal /\ InitNoCounters
            /\ InitNoForms /\ InitData /\ InitNoAnim /\ InitNoDebounce

SpecData == DataInit /\ [][NextData]_vars

(* ------------------- timeline animation engine: model ------------------ *)
\* a page with the animations script: gsap may have failed to load, the page
\* may be hidden and the reduced-motion preference may be set
InitAnimPage(doms, gs, hs, rs) ==
    /\ gsapLoaded \in gs
    /\ hidden \in hs
    /\ reducedMotion \in rs
    /\ animDom \in doms
    /\ animListener = FALSE
    /\ animInitRuns = 0
    /\ animSetups = {}
    /\ defaultsDuration = -1
    /\ setDuration = -1
    /\ visListener = FALSE
    /\ motionListener = FALSE
    /\ timelinePaused = FALSE
    /\ animWarnings = 0
    /\ animErrors = {}
    /\ visHandled = FALSE
    /\ tweens = <<>>
    /\ style = [e \in animDom |-> [p \in Props |-> "identity"]]
    /\ pointer = [e \in animDom \cap HoverElements |-> "none"]
    /\ clicks = <<>>
    /\ navigations = <<>>

InitAnim == InitAnimPage({HeroDom}, BOOLEAN, BOOLEAN, BOOLEAN)

NextAnim ==
    \/ AnimScript
    \/ DOMContentLoaded
    \/ VisibilityChange
    \/ MotionPreferenceChange
    \/ \E d \in FrameSteps : Frame(d)

AnimInit == InitDoc /\ InitMenu /\ InitScroll /\ InitNoLinks /\ InitNoReveal /\ InitNoCounters
            /\ InitNoForms /\ InitNoData /\ InitAnim /\ InitNoDebounce

SpecAnim == AnimInit /\ [][NextAnim]_vars

\* hover: a page with one card or button, the pointer entering and leaving
InitHover == InitAnimPage(HoverDoms, {TRUE}, {FALSE}, {FALSE})

NextHover ==
    \/ AnimScript
    \/ DOMContentLoaded
    \/ \E e \in HoverElements : PointerEnter(e)
    \/ \E e \in HoverElements : PointerLeave(e)
    \/ \E d \in FrameSteps : Frame(d)

HoverInit == InitDoc /\ InitMenu /\ InitScroll /\ InitNoLinks /\ InitNoReveal /\ InitNoCounters
             /\ InitNoForms /\ InitNoData /\ InitHover /\ InitNoDebounce

SpecHover == HoverInit /\ [][NextHover]_vars

\* scroll triggers: a page with a problem and a benefits section
InitTrigger == InitAnimPage({TriggerDom}, {TRUE}, {FALSE}, {FALSE})

NextTrigger ==
    \/ AnimScript
    \/ DOMContentLoaded
    \/ \E y \in TriggerOffsets : TriggerScroll(y)
    \/ \E d \in FrameSteps : Frame(d)

TriggerInit == InitDoc /\ InitMenu /\ InitScroll /\ InitNoLinks /\ InitNoReveal /\ InitNoCounters
               /\ InitNoForms /\ InitNoData /\ InitTrigger /\ InitNoDebounce

SpecTrigger == TriggerInit /\ [][NextTrigger]_vars

\* page transitions: a page with main and links, clicked while the page is
\* shown or hidden
InitTransition == InitAnimPage({TransitionDom}, BOOLEAN, {FALSE}, {FALSE})

NextTransition ==
    \/ AnimScript
    \/ DOMContentLoaded
    \/ VisibilityChange
    \/ \E l \in DOMAIN PageLinks : LinkClick(l)
    \/ \E d \in FrameSteps : Frame(d)

TransitionInit == InitDoc /\ InitMenu /\ InitScroll /\ InitNoLinks /\ InitNoReveal
                  /\ InitNoCounters /\ InitNoForms /\ InitNoData /\ InitTransition
                  /\ InitNoDebounce

SpecTransition == TransitionInit /\ [][NextTransition]_vars

(* ------------------------------ debounce ------------------------------- *)
\* clearTimeout(timeout): timeout holds the id of the timer the wrapper set
\* last (the call's index), pending or not
ClearTimeoutKeeps(q, id) == q

ClearTimeout(q, id) == SelectSeq(q, LAMBDA x : ~(x.kind = "debounce" /\ x.idx = id))

DebounceTimer(id, t) == [kind |-> "debounce", who |-> "debounce", idx |-> id, due |-> t + DebounceWait]

\* a call of the debounced function with argument a: the pending timer is
\* cleared and a new one set, whose callback holds this call's arguments
DebouncedCall(a) ==
    /\ Len(debCalls) < MaxCalls
    /\ debCalls' = Append(debCalls, [at |-> now, args |-> a])
    /\ timers' = InsertTimer(ClearTimeout(timers, Len(debCalls)),
                             DebounceTimer(Len(debCalls) + 1, now))
    /\ lastEvent' = [type |-> "call", anchor |-> FALSE, wasOpen |-> menuOpen]
    /\ UNCHANGED <<docVars, linkVars, menuVars, scrollVars, now, menuHist, scrollHist,
                   revealVars, counterVars, formVars, noteVars, dataVars, animVars,
                   debInvoked>>

\* the timer of the wrapper fires: later() clears timeout and invokes func
\* with the arguments of the call that set the timer
DebounceExpire ==
    /\ timers # <<>>
    /\ Head(timers).kind = "debounce"
    /\ now' = Max(now, Head(timers).due)
    /\ timers' = ClearTimeout(Tail(timers), Len(debCalls))
    /\ debInvoked' = Append(debInvoked, [at |-> now', call |-> Head(timers).idx,
                                         args |-> debCalls[Head(timers).idx].args])
    /\ lastEvent' = [type |-> "debounced", anchor |-> FALSE, wasOpen |-> menuOpen]
    /\ UNCHANGED <<docVars, linkVars, menuVars, scrollVars, menuHist, scrollHist,
                   revealVars, counterVars, formVars, noteVars, dataVars, animVars,
                   debCalls>>

InitDebounce ==
    /\ debCalls = <<>>
    /\ debInvoked = <<>>

NextDebounce ==
    \/ \E a \in DebounceArgs : DebouncedCall(a)
    \/ DebounceExpire
    \/ \E d \in TickSteps : Tick(d)

DebounceInit == InitDoc /\ InitMenu /\ InitScroll /\ InitNoLinks /\ InitNoReveal /\ InitNoCounters
                /\ InitNoForms /\ InitNoData /\ InitNoAnim /\ InitDebounce

SpecDebounce == DebounceInit /\ [][NextDebounce]_vars

(* ===================== properties: navigation menu ===================== *)
MenuClosed ==
    /\ ~toggleActive
    /\ ~menuOpen
    /\ ariaExpanded = "false"
    /\ bodyOverflow = ""

\* C1: in every state reached by toggle clicks and mobile-menu link clicks
\* from a closed menu, the toggle's active class, the menu's open class,
\* aria-expanded = 'true' and body overflow = 'hidden' all agree.
C1_MenuFactsAgree ==
    /\ toggleActive = menuOpen
    /\ menuOpen = (ariaExpanded = "true")
    /\ menuOpen = (bodyOverflow = "hidden")
    /\ ariaExpanded \in {"true", "false"}
    /\ bodyOverflow \in {"hidden", ""}

\* the menu is open after three toggle clicks in a row
C1_Witness ==
    /\ menuOpen
    /\ bodyOverflow = "hidden"
    /\ lastEvent.type = "toggle"
    /\ toggleRun = 3

\* C2: after a click on a link of the mobile menu the menu is closed (toggle
\* inactive, menu not open, aria-expanded 'false', body scroll restored),
\* whatever the state before, also when the link is an in-page anchor.
C2_LinkClickCloses == lastEvent.type = "menulink" => MenuClosed

\* an in-page anchor of the open menu was clicked and the page scrolled to it
C2_Witness ==
    /\ lastEvent.type = "menulink"
    /\ lastEvent.anchor
    /\ lastEvent.wasOpen
    /\ scrollY = AnchorPosition

\* C3: an even number of consecutive toggle clicks restores the menu state,
\* aria-expanded and the scroll lock; four clicks from a closed menu leave
\* the menu closed and the scroll lock cleared.
C3_EvenTogglesRoundTrip ==
    /\ (toggleRun > 0 /\ toggleRun % 2 = 0) => MenuState = runStart
    /\ toggleRun % 2 = 1 => menuOpen # runStart.menu
    /\ (toggleRun = 4 /\ ~runStart.menu) => (~menuOpen /\ bodyOverflow = "")

\* four toggle clicks in a row from a closed menu
C3_Witness ==
    /\ toggleRun = 4
    /\ lastEvent.type = "toggle"
    /\ ~runStart.menu
    /\ ~menuOpen

ActiveLinks == {l \in DOMAIN links : linkActive[l] /\ ariaCurrent[l]}
MatchingLinks == {l \in DOMAIN links : Pathname(links[l].href, currentPath) = currentPath}

NavCooldowns == {i \in DOMAIN timers : timers[i].kind = "cooldown" /\ timers[i].who = "nav"}

\* C4: two evaluations of the throttled navigation scroll handler are never
\* closer than the 100 ms limit (so one cooldown window holds at most one
\* evaluation, however many scroll events arrive in it), and at most one
\* cooldown timer of the throttle is pending at any time.
C4_ThrottleBounds ==
    /\ prevEvalAt >= 0 => lastEvalAt - prevEvalAt >= 100
    /\ Cardinality(NavCooldowns) <= 1
    /\ inThrottle["nav"] <=> Cardinality(NavCooldowns) = 1
    /\ \A i \in NavCooldowns : timers[i].due = lastEvalAt + 100

\* a burst of swallowed events, after two evaluations exactly 100 ms apart
C4_Witness ==
    /\ suppressed >= 2
    /\ evalCount >= 2
    /\ lastEvalAt - prevEvalAt = 100

\* C5: every evaluation of handleScroll leaves nav--scrolled present exactly
\* when the scroll offset at that moment is greater than 100 px, whatever the
\* class state and the offsets before.
C5_ScrolledIffAboveThreshold ==
    [][evalCount' # evalCount => (navScrolled' <=> scrollY' > 100)]_vars

\* the class was removed again at exactly 100 px, after earlier evaluations
C5_Witness ==
    /\ evalCount >= 3
    /\ lastEvalAt = now
    /\ scrollY = 100
    /\ ~navScrolled

(* ====================== properties: scroll reveal ====================== *)
\* C7: for every observed element the revealed flag becomes true at the first
\* intersection, changes from false to true at most once and is never set
\* back to false by any later callback.
C7_RevealedOnceForever ==
    /\ [](\A e \in DOMAIN revealed :
            /\ revealCount[e] = (IF revealed[e] THEN 1 ELSE 0)
            /\ intersecting[e] = "in" => revealed[e])
    /\ [][\A e \in DOMAIN revealed : revealed[e] => revealed'[e]]_vars

\* a revealed element has left the viewport again and is still revealed,
\* another one has come back into it after its reveal
C7_Witness ==
    /\ revealed[1] /\ intersecting[1] = "out"
    /\ revealed[2] /\ reworked[2]

\* C8 as stated: once an element has been revealed it is no longer observed.
C8_RevealedNotObserved == \A e \in DOMAIN revealed : revealed[e] => e \notin observed

(* ========================= properties: counters ======================== *)
NonNegTarget(c) == started[c] /\ ~target[c].nan /\ target[c].val >= 0

\* C9: for a counter with a non-negative integer target, the numbers written
\* during the animation are non-decreasing, at least 0 and never above the
\* target.
C9_CounterMonotoneBounded ==
    \A c \in DOMAIN started :
        NonNegTarget(c) =>
            /\ writes[c] >= 1 =>
                 /\ ~lastShown[c].nan
                 /\ 0 <= lastShown[c].val
                 /\ lastShown[c].val <= target[c].val
            /\ writes[c] >= 2 => prevShown[c].val <= lastShown[c].val

\* the 60th tick of the counter with target 70 wrote 69: the sum of sixty
\* increments was still below 70
C9_Witness ==
    /\ NonNegTarget(1)
    /\ target[1].val = 70
    /\ writes[1] = 60
    /\ prevShown[1].val = 68
    /\ lastShown[1].val = 69

\* C10: a started counter whose target is a non-negative integer terminates:
\* its interval is eventually cleared, no tick runs after that, and the text
\* then shows exactly the target in the element's format (70 and "0%" end as
\* "70%").
C10_CounterTerminatesOnTarget ==
    /\ \A c \in 1..NumCounters : (NonNegTarget(c) ~> cleared[c])
    /\ [](\A c \in 1..NumCounters :
            (NonNegTarget(c) /\ cleared[c]) =>
                /\ \A i \in DOMAIN timers : ~(timers[i].kind = "counter" /\ timers[i].idx = c)
                /\ lastShown[c] = target[c]
                /\ text[c] = FormatCounter(text0[c], target[c])
                /\ (dataTarget[c] = <<"7", "0">> /\ text0[c] = <<"0", "%">>)
                      => text[c] = <<"7", "0", "%">>)
    /\ [][\A c \in 1..NumCounters :
            cleared[c] => (cleared'[c] /\ writes'[c] = writes[c] /\ text'[c] = text[c])]_vars

\* the counter with target 70 and text "0%" has stopped on "70%" with its
\* 61st tick
C10_Witness ==
    /\ cleared[1]
    /\ dataTarget[1] = <<"7", "0">>
    /\ writes[1] = 61
    /\ text[1] = <<"7", "0", "%">>

\* C11 as stated: a counter whose data-target does not parse as a number
\* is skipped: its text is never written and no interval timer of it is
\* pending.
C11_UnparsableTargetSkipped ==
    \A c \in DOMAIN started :
        (started[c] /\ target[c].nan) =>
            /\ writes[c] = 0
            /\ text[c] = text0[c]
            /\ \A i \in DOMAIN timers :
                    ~(timers[i].kind = "counter" /\ timers[i].idx = c)

\* C12: no counter text is written before the load event plus the 500 ms
\* settle delay plus one 50 ms interval; no counter is started before the
\* load event plus the settle delay; before the load event no counter timer
\* exists at all; and all counters are started together by the one settle
\* timer, which is due 500 ms after the load event.
C12_CountersStartAfterLoadAndSettle ==
    /\ \A c \in DOMAIN started :
          /\ started[c] => (loadAt >= 0 /\ now >= loadAt + SettleDelay)
          /\ writes[c] >= 1 =>
                (started[c] /\ now >= loadAt + SettleDelay + CounterInterval)
          /\ writes[c] = 0 => text[c] = text0[c]
          /\ \A d \in DOMAIN started : started[c] = started[d]
    /\ loadAt < 0 => timers = <<>>
    /\ \A i \in DOMAIN timers :
          /\ timers[i].kind = "settle" =>
                /\ timers[i].due = loadAt + SettleDelay
                /\ \A j \in DOMAIN timers : timers[j].kind = "settle" => j = i
                /\ \A c \in DOMAIN started : ~started[c]
          /\ timers[i].kind = "counter" =>
                /\ started[timers[i].idx]
                /\ timers[i].due >= loadAt + SettleDelay + CounterInterval

\* the load event came 100 ms into the page's life and both counters have
\* just had their first tick, 550 ms after it
C12_Witness ==
    /\ loadAt = 100
    /\ now = loadAt + SettleDelay + CounterInterval
    /\ writes[1] = 1
    /\ writes[2] = 1

(* ============== properties: notifications and contact forms ============ *)
\* where a notification is in its life: in the page with the entry
\* animation, in the page with the exit animation, or out of the page
NoteState(n) ==
    IF ~notes[n].inBody THEN "removed"
    ELSE IF notes[n].animation = "slideOutRight" THEN "exiting"
    ELSE "visible"

\* positions in the timer queue of the pending timers of one kind of
\* notification n
PendingOf(kind, n) == {i \in DOMAIN timers : timers[i].kind = kind /\ timers[i].idx = n}

\* the pending timers of notification n, in queue order
OwnTimers(n) == SelectSeq(timers, LAMBDA x : x.who = "note" /\ x.idx = n)

\* C13: with timers firing when due, a notification is in the page from the
\* call on, without exit animation until 5000 ms after its creation; its
\* exit animation starts at 5000 ms and it is removed 300 ms later, 5300 ms
\* after its creation.  Its states only follow the order visible, exiting,
\* removed, so no removal comes without an exit before it.
C13_NotificationLifecycle ==
    /\ [](\A n \in DOMAIN notes :
            /\ NoteState(n) = "visible" =>
                 /\ notes[n].createdAt <= now
                 /\ now <= notes[n].createdAt + NoteLifetime
                 /\ notes[n].exits = 0
                 /\ \E i \in PendingOf("noteExit", n) :
                        timers[i].due = notes[n].createdAt + NoteLifetime
            /\ NoteState(n) = "exiting" =>
                 /\ notes[n].exitAt = notes[n].createdAt + NoteLifetime
                 /\ now <= notes[n].exitAt + ExitDuration
                 /\ \E i \in PendingOf("noteRemove", n) :
                        timers[i].due = notes[n].exitAt + ExitDuration
            /\ NoteState(n) = "removed" =>
                 /\ notes[n].exits >= 1
                 /\ notes[n].exitAt = notes[n].createdAt + NoteLifetime
                 /\ notes[n].removedAt = notes[n].exitAt + ExitDuration
                 /\ notes[n].removedAt = notes[n].createdAt + NoteLifetime + ExitDuration)
    /\ [][\A n \in DOMAIN notes' :
            IF n \in DOMAIN notes
              THEN <<NoteState(n), NoteState(n)'>> \in
                      {<<"visible", "visible">>, <<"visible", "exiting">>,
                       <<"exiting", "exiting">>, <<"exiting", "removed">>,
                       <<"removed", "removed">>}
              ELSE NoteState(n)' = "visible" /\ notes'[n].createdAt = now']_vars

\* a notification shown at 2100 ms has been removed at 7400 ms
C13_Witness ==
    /\ Len(notes) >= 1
    /\ notes[1].createdAt = 2100
    /\ NoteState(1) = "removed"
    /\ notes[1].removedAt = 7400

\* C14: the exit animation of a notification is started at most once,
\* removeChild is called at most once for it and only while it is a child
\* of the body (so it never throws), and every notification shown is
\* eventually removed.
C14_RemovedExactlyOnce ==
    /\ [](\A n \in DOMAIN notes :
            /\ notes[n].exits <= 1
            /\ notes[n].removals <= 1
            /\ ~notes[n].threw
            /\ notes[n].exits + Cardinality(PendingOf("noteExit", n)) = 1
            /\ notes[n].removals + Cardinality(PendingOf("noteRemove", n)) = notes[n].exits)
    /\ [][\A n \in DOMAIN notes :
            notes'[n].removals > notes[n].removals =>
                (notes[n].inBody /\ ~notes'[n].inBody)]_vars
    /\ \A n \in 1..MaxSubmits :
            (n \in DOMAIN notes) ~> (n \in DOMAIN notes /\ ~notes[n].inBody)

\* the first notification has been removed by its one removeChild call while
\* the second one is still in the page
C14_Witness ==
    /\ Len(notes) = 2
    /\ notes[1].exits = 1 /\ notes[1].removals = 1 /\ ~notes[1].inBody
    /\ notes[2].inBody

\* C15: every notification in the page has its own pending timer (the exit
\* timer while visible, the removal timer while exiting); a notification
\* and its timers change only when its own timer fires; a completed
\* submission adds its notification however many are in the page; and
\* notifications start to leave and leave the page in the order in which
\* they were shown.
C15_NotificationsIndependent ==
    /\ [](\A n \in DOMAIN notes :
            /\ NoteState(n) = "visible" =>
                 /\ Cardinality(PendingOf("noteExit", n)) = 1
                 /\ PendingOf("noteRemove", n) = {}
                 /\ OwnTimers(n)[1].due = notes[n].createdAt + NoteLifetime
            /\ NoteState(n) = "exiting" =>
                 /\ Cardinality(PendingOf("noteRemove", n)) = 1
                 /\ PendingOf("noteExit", n) = {}
                 /\ OwnTimers(n)[1].due = notes[n].exitAt + ExitDuration
            /\ NoteState(n) = "removed" => OwnTimers(n) = <<>>
            /\ \A m \in DOMAIN notes :
                 m < n =>
                   /\ notes[m].createdAt <= notes[n].createdAt
                   /\ notes[n].exits >= 1 =>
                        (notes[m].exits >= 1 /\ notes[m].exitAt <= notes[n].exitAt)
                   /\ ~notes[n].inBody =>
                        (~notes[m].inBody /\ notes[m].removedAt <= notes[n].removedAt))
    /\ [][/\ \A n \in DOMAIN notes :
               (notes'[n] # notes[n] \/ OwnTimers(n)' # OwnTimers(n)) =>
                   /\ timers # <<>>
                   /\ Head(timers).who = "note"
                   /\ Head(timers).idx = n
          /\ (\E s \in DOMAIN submissions : ~submissions[s].done /\ submissions'[s].done) =>
               /\ Len(notes') = Len(notes) + 1
               /\ notes'[Len(notes')].inBody]_vars

\* two notifications shown 100 ms apart: the first is leaving while the
\* second is still visible
C15_Witness ==
    /\ Len(notes) = 2
    /\ notes[2].createdAt = notes[1].createdAt + 100
    /\ NoteState(1) = "exiting"
    /\ NoteState(2) = "visible"

\* C16 as stated: right after a submit the control is disabled with the
\* busy label, and whenever no submission of a form is in flight its control
\* is enabled, without btn--loading, and shows the label it had in the
\* markup.
C16_ControlRestoredWhenIdle ==
    \A f \in DOMAIN label :
        /\ (lastEvent.type = "submit" /\ submissions[Len(submissions)].form = f) =>
              (disabled[f] /\ loading[f] /\ label[f] = BusyLabel)
        /\ InFlight(f) = {} =>
              (~disabled[f] /\ ~loading[f] /\ label[f] = label0[f])

\* C17: every completed submission has exactly one notification of its own,
\* an uncompleted one has none; the step that completes a submission adds
\* exactly one notification, of success severity with the form's fields
\* cleared or of error severity with the fields unchanged.
C17_OneNotificationPerSubmission ==
    /\ [](/\ \A s \in DOMAIN submissions :
               /\ ~submissions[s].done => submissions[s].note = 0
               /\ submissions[s].done =>
                    /\ submissions[s].note \in DOMAIN notes
                    /\ notes[submissions[s].note].severity \in {"success", "error"}
                    /\ \A r \in DOMAIN submissions :
                         (r # s /\ submissions[r].done) =>
                             submissions[r].note # submissions[s].note
          /\ Len(notes) = Cardinality({s \in DOMAIN submissions : submissions[s].done}))
    /\ [][\A s \in DOMAIN submissions :
            (~submissions[s].done /\ submissions'[s].done) =>
                /\ Len(notes') = Len(notes) + 1
                /\ submissions'[s].note = Len(notes')
                /\ \/ /\ notes'[Len(notes')].severity = "success"
                      /\ fields'[submissions[s].form] = "empty"
                   \/ /\ notes'[Len(notes')].severity = "error"
                      /\ fields'[submissions[s].form] = fields[submissions[s].form]]_vars

\* a submission of a filled form has just completed: one success
\* notification, fields cleared
C17_Witness ==
    /\ lastEvent.type = "submitted"
    /\ Len(submissions) = 1
    /\ submissions[1].done
    /\ Len(notes) = 1
    /\ notes[1].severity = "success"
    /\ fields[1] = "empty"

(* =================== properties: remote data hydration ================= *)
\* the payload field that feeds a benefits or market display element
FeedField(e) ==
    CASE e = "cost" -> payload.benefits.cost_reduction
      [] e = "energy" -> payload.benefits.energy_reduction
      [] e = "carbon" -> payload.benefits.carbon_reduction
      [] e = "tam" -> payload.market_data.total_addressable_market
      [] e = "sam" -> payload.market_data.serviceable_addressable_market
      [] e = "som" -> payload.market_data.serviceable_obtainable_market

\* C18 as stated: hydration changes the text of a display element only when
\* the payload field that feeds it is present, and then to that field's
\* value; the badge changes only when the first achievement has a title.
C18_OnlyPresentFieldsHydrate ==
    /\ \A e \in Elements \ {"badge"} :
          elemText[e] # elemText0[e] =>
              (FeedField(e).has /\ elemText[e] = FeedField(e).val)
    /\ elemText["badge"] # elemText0["badge"] =>
          /\ payload.achievements.has
          /\ Len(payload.achievements.list) > 0
          /\ payload.achievements.list[1].title.has
          /\ elemText["badge"] = payload.achievements.list[1].title.val

\* C19 as stated: when the request rejects or the response is not ok, a
\* diagnostic has been logged and no display element has changed.
C19_FailedFetchLoggedAndIgnored ==
    (fetchState = "settled" /\ fetchOutcome \in {"rejected", "notok"}) =>
        /\ warnings >= 1
        /\ elemText = elemText0

(* ================ properties: timeline animation engine ================ *)
\* C20 as stated: with gsap unavailable the engine does nothing and raises
\* no error: no set-up routine runs, no duration is set, the timeline is
\* never paused, and neither the initializer nor a later visibilitychange or
\* reduced-motion change ends in an error.
C20_NoGsapNoActionNoError ==
    ~gsapLoaded =>
        /\ animSetups = {}
        /\ defaultsDuration = -1
        /\ setDuration = -1
        /\ ~timelinePaused
        /\ animErrors = {}

(* ============ properties: scroll throttle, trailing events ============= *)
\* C26 as stated: once scroll events have been handled and the cooldown of
\* the navigation throttle has elapsed, nav--scrolled is present exactly
\* when the scroll offset is greater than 100 px.
C26_FinalOffsetReflected ==
    (evalCount >= 1 /\ ~inThrottle["nav"]) => (navScrolled <=> scrollY > ScrollThreshold)

(* ========================= properties: debounce ======================== *)
DebouncePending == {i \in DOMAIN timers : timers[i].kind = "debounce"}

\* the invocations of func that the call with index c has led to
InvocationsOf(c) == {k \in DOMAIN debInvoked : debInvoked[k].call = c}

\* C28: at most one timer of a debounced function is pending at any time,
\* and it is the timer of the last call, due wait ms after that call.  A
\* call followed by another call less than wait ms later never leads to an
\* invocation; every other call leads to at most one invocation, not before
\* wait ms after the call and with that call's arguments; and when no timer
\* is pending the last call of the burst has been invoked, so a burst ends
\* in exactly one invocation, made for its last call.
C28_DebounceOneInvocationPerBurst ==
    /\ Cardinality(DebouncePending) <= 1
    /\ \A i \in DebouncePending :
          /\ timers[i].idx = Len(debCalls)
          /\ timers[i].due = debCalls[Len(debCalls)].at + DebounceWait
    /\ \A c \in DOMAIN debCalls :
          /\ Cardinality(InvocationsOf(c)) <= 1
          /\ \A k \in InvocationsOf(c) :
                /\ debInvoked[k].at >= debCalls[c].at + DebounceWait
                /\ debInvoked[k].args = debCalls[c].args
                /\ c < Len(debCalls) => debCalls[c + 1].at >= debInvoked[k].at
          /\ (c < Len(debCalls) /\ debCalls[c + 1].at - debCalls[c].at < DebounceWait) =>
                InvocationsOf(c) = {}
    /\ (debCalls # <<>> /\ DebouncePending = {}) =>
          Cardinality(InvocationsOf(Len(debCalls))) = 1

\* three calls 50 ms apart with different arguments: one invocation, 100 ms
\* after the last call and with its argument
C28_Witness ==
    /\ Len(debCalls) = 3
    /\ debCalls[1].at = 0 /\ debCalls[2].at = 50 /\ debCalls[3].at = 100
    /\ debCalls[1].args # debCalls[3].args
    /\ Len(debInvoked) = 1
    /\ debInvoked[1].at = debCalls[3].at + DebounceWait
    /\ debInvoked[1].args = debCalls[3].args


PositiveTarget(c) == started[c] /\ ~target[c].nan /\ target[c].val > 0

\* C29 as stated: a counter with a positive integer target runs exactly 60
\* ticks: after tick k < 60 it shows floor(k * target / 60) and is still
\* running, the 60th tick shows the target and clears the timer, and there
\* is no 61st tick.
C29_ExactlySixtyTicks ==
    \A c \in DOMAIN started :
        PositiveTarget(c) =>
            /\ writes[c] <= CounterFrames
            /\ (writes[c] >= 1 /\ writes[c] < CounterFrames) =>
                 /\ lastShown[c] = Num((writes[c] * target[c].val) \div CounterFrames)
                 /\ ~cleared[c]
            /\ writes[c] = CounterFrames => (lastShown[c] = target[c] /\ cleared[c])

\* the format the specification infers from a text: currency-millions needs
\* both "$" and "M"
StatedFormat(txt, x) ==
    IF Includes(txt, "%") THEN NumberToString(x) \o <<"%">>
    ELSE IF Includes(txt, "$") /\ Includes(txt, "M")
      THEN <<"$">> \o NumberToString(x) \o <<"M">>
      ELSE NumberToString(x)

\* C30 as stated: every tick writes the number in the format inferred from
\* the element's text before the animation: percentage when it contains "%",
\* currency-millions when it contains both "$" and "M", plain otherwise (so
\* plain for a text with "M" but no "$"), the same format at every tick.
C30_FormatInferredFromText ==
    \A c \in DOMAIN started :
        writes[c] >= 1 => text[c] = StatedFormat(text0[c], lastShown[c])


(* ==================== properties: animation engine ===================== *)
\* C21 as stated: once the reduced-motion preference has been read, at
\* initialization or by the change listener, and it is active, every tween
\* of the engine has the near-zero duration (0.01 s) instead of its own.
C21_ReducedMotionShortensAll ==
    (gsapLoaded /\ motionListener /\ reducedMotion) =>
        \A i \in DOMAIN tweens : tweens[i].dur <= ReducedDuration

FadesOf(c) == {i \in DOMAIN tweens : tweens[i].kind = "fadeOut" /\ tweens[i].click = c}

NavigationsOf(c) == {n \in DOMAIN navigations : navigations[n].click = c}

\* C23: a click that the page-transition listener handles is on a link of
\* the page's host and its default navigation is prevented; while its 0.4 s
\* fade-out is in flight window.location has not been changed for it; when
\* the fade has completed, window.location has been set, once, after the
\* full 0.4 s of the fade, to the href of the clicked link.
C23_NavigationAfterFade ==
    \A c \in DOMAIN clicks :
        clicks[c].prevented =>
            /\ clicks[c].sameHost
            /\ \A n \in NavigationsOf(c) :
                  /\ navigations[n].cause = "fade"
                  /\ navigations[n].elapsed = FadeOutDuration
                  /\ navigations[n].href = clicks[c].href
            /\ FadesOf(c) # {} =>
                  /\ NavigationsOf(c) = {}
                  /\ \A i \in FadesOf(c) : tweens[i].pos < FadeOutDuration
            /\ FadesOf(c) = {} => Cardinality(NavigationsOf(c)) = 1

\* the fade of a click on /about has completed and window.location was set
\* to /about
C23_Witness ==
    \E c \in DOMAIN clicks :
        /\ clicks[c].prevented
        /\ clicks[c].href = "/about"
        /\ FadesOf(c) = {}
        /\ \E n \in NavigationsOf(c) :
              navigations[n].href = "/about" /\ navigations[n].elapsed = FadeOutDuration

\* no tween of element e is in flight
AtRest(e) == \A i \in DOMAIN tweens : tweens[i].target = e => ~Active(tweens[i])

\* C24 as stated: once all tweens of a card or button have finished, the
\* element rests in the state of the last pointer event: scaled (and, for a
\* card, lifted) after an enter, scale 1 and y 0 after a leave.
C24_LastIntentWins ==
    \A e \in DOMAIN pointer :
        AtRest(e) =>
            /\ pointer[e] = "enter" =>
                  /\ style[e]["scale"] = "hover"
                  /\ e = "card" => style[e]["y"] = "hover"
            /\ pointer[e] = "leave" =>
                  /\ style[e]["scale"] = "identity"
                  /\ style[e]["y"] = "identity"

\* element e shows the end state of its entrance: identity and opaque
GroupShown(e) == \A p \in {"x", "y", "opacity", "scale"} : style[e][p] = "identity"

\* C25 as stated: once the engine is initialised and the tweens of a
\* section group have finished, the group is shown exactly when the scroll
\* offset is at or past the point where its first element is at 80% of the
\* viewport height, and is in its start state otherwise.
C25_ShownIffPastTrigger ==
    \A e \in animDom :
        ("animateScrollElements" \in animSetups /\ AtRest(e)) =>
            IF scrollY >= StartOffset(e, SectionStart)
              THEN GroupShown(e)
              ELSE \A p \in {"y", "opacity", "scale"} : style[e][p] = "start"


(* ------------------------------ whole page ----------------------------- *)
\* A page with the navigation and one more subsystem at a time: none (the
\* page that is scrolled), one scroll-reveal element, one counter, one
\* contact form with its notifications, the hydrated elements, the
\* animation engine (life cycle, a button, a link), or a debounced function.
\* Every handler and timer of the subsystem can run in between the clicks
\* on the navigation.
PageKinds == {"plain", "reveal", "counters", "form", "data", "animations", "hover",
              "transition", "debounce"}
PageMenu == <<[href |-> HrefAbout, inMobile |-> TRUE],
              [href |-> HrefAnchor, inMobile |-> FALSE]>>
PageOffsets == {101}
PageDom == [animations |-> {"main"}, hover |-> {"btn"}, transition |-> {"main"}]

InitPageDoc ==
    /\ readyState = "loading"
    /\ constructed = FALSE
    /\ domReadyListener = FALSE
    /\ domReadyRuns = 0
    /\ loadListener = FALSE
    /\ loadAt = -1
    /\ pageKind \in PageKinds

InitPageLinks ==
    /\ links = PageMenu
    /\ currentPath = HrefRoot
    /\ linkActive = [l \in DOMAIN PageMenu |-> FALSE]
    /\ ariaCurrent = [l \in DOMAIN PageMenu |-> FALSE]

\* one .scroll-reveal element with data-stagger="2"
InitPageReveal ==
    /\ stagger = <<<<"2">>>>
    /\ observed = {}
    /\ intersecting = <<"unknown">>
    /\ revealed = <<FALSE>>
    /\ transitionDelay = <<-1>>
    /\ revealCount = <<0>>
    /\ reworked = <<FALSE>>

\* one counter with data-target="0" and the text "0%"
InitPageCounters ==
    /\ dataTarget = <<<<"0">>>>
    /\ text = <<<<"0", "%">>>>
    /\ text0 = text
    /\ started = <<FALSE>>
    /\ target = <<NaN>>
    /\ ticks = <<0>>
    /\ cleared = <<FALSE>>
    /\ writes = <<0>>
    /\ lastShown = <<Num(0)>>
    /\ prevShown = <<Num(0)>>

\* one contact form
InitPageForm ==
    /\ label = <<"Send Message">>
    /\ label0 = label
    /\ disabled = <<FALSE>>
    /\ loading = <<FALSE>>
    /\ fields = <<"filled">>
    /\ submissions = <<>>
    /\ notes = <<>>

\* all display elements, and a payload with every section
InitPageData ==
    /\ payload = CHOOSE q \in Payloads :
                    q.achievements.has /\ q.benefits.has /\ q.market_data.has
    /\ present = Elements
    /\ fetchState = "idle"
    /\ fetchOutcome = "none"
    /\ elemText = [e \in Elements |-> OldText]
    /\ elemText0 = elemText
    /\ warnings = 0

InitPageAnim == InitAnimPage({PageDom[pageKind]}, {TRUE}, {FALSE}, {FALSE})

PageInit ==
    /\ InitPageDoc
    /\ InitMenu
    /\ InitScroll
    /\ InitPageLinks
    /\ IF pageKind = "reveal" THEN InitPageReveal ELSE InitNoReveal
    /\ IF pageKind = "counters" THEN InitPageCounters ELSE InitNoCounters
    /\ IF pageKind = "form" THEN InitPageForm ELSE InitNoForms
    /\ IF pageKind = "data" THEN InitPageData ELSE InitNoData
    /\ IF pageKind \in DOMAIN PageDom THEN InitPageAnim ELSE InitNoAnim
    /\ InitDebounce

\* the events of the environment come on the page of their subsystem, one
\* submission, one link click and two debounced calls at most; the clicks on
\* the navigation, the events of the document and the timers come on every
\* page
NextPage ==
    \/ Construct
    \/ DOMContentLoaded
    \/ LoadEvent
    \/ ToggleClick
    \/ \E l \in DOMAIN links : MenuLinkClick(l)
    \/ \E l \in DOMAIN links : AnchorClick(l)
    \/ pageKind = "plain" /\ \E y \in PageOffsets : ScrollEvent(y)
    \/ CooldownExpire
    \/ \E S \in SUBSET observed : \E inS \in SUBSET S : RevealCallback(S, inS)
    \/ SettleExpire
    \/ CounterTick
    \/ submissions = <<>> /\ \E f \in DOMAIN label : SubmitEvent(f)
    \/ SubmitComplete
    \/ NoteExitExpire
    \/ NoteRemoveExpire
    \/ \E f \in DOMAIN label : FillForm(f)
    \/ pageKind = "data" /\ \E o \in FetchOutcomes : FetchSettle(o)
    \/ pageKind \in DOMAIN PageDom /\ AnimScript
    \/ pageKind = "animations" /\ VisibilityChange
    \/ pageKind = "animations" /\ MotionPreferenceChange
    \/ \E d \in FrameSteps : Frame(d)
    \/ \E e \in HoverElements : PointerEnter(e)
    \/ \E e \in HoverElements : PointerLeave(e)
    \/ pageKind = "transition" /\ clicks = <<>> /\ LinkClick(1)
    \/ pageKind = "debounce" /\ Len(debCalls) < 2 /\ DebouncedCall("a")
    \/ DebounceExpire

SpecPage == PageInit /\ [][NextPage]_vars

(* ======================= properties: scroll lock ======================= *)
\* C27: the scroll lock of the body (style.overflow) changes only in a run
\* of the nav-toggle click handler or of the mobile-menu link click handler,
\* and that run also changes the menu state; every other handler and timer
\* of the page leaves it as it is.
C27_ScrollLockOnlyByMenuHandlers ==
    [][bodyOverflow' # bodyOverflow =>
          /\ lastEvent'.type \in {"toggle", "menulink"}
          /\ menuOpen' # menuOpen]_vars

\* the menu is open and the scroll is locked while another subsystem has
\* just run: a counter tick, a notification timer, a submit, the fetch, a
\* reveal, a scroll event, a frame of the engine or a debounced call
C27_Witness ==
    /\ menuOpen
    /\ bodyOverflow = "hidden"
    /\ lastEvent.type \in {"tick", "noteExit", "noteRemove", "submit", "submitted", "fetch",
                           "reveal", "scroll", "cooldown", "frame", "mouseenter",
                           "linkclick", "debounced", "anchor", "settle", "load"}

(* ==================== properties: DOM-ready set-up ===================== *)
\* C31: whether the script runs while the document is loading or after it
\* is ready, onDOMReady runs exactly once per page load: never twice; not
\* before the script has run; not yet while the document is still loading
\* (then the listener is registered); and exactly once as soon as the script
\* has run and the document is no longer loading, with every reveal element
\* observed by that one run's observer.
C31_OnDOMReadyExactlyOnce ==
    /\ domReadyRuns <= 1
    /\ ~constructed => domReadyRuns = 0
    /\ (constructed /\ readyState = "loading") => (domReadyRuns = 0 /\ domReadyListener)
    /\ (constructed /\ readyState # "loading") =>
           (domReadyRuns = 1 /\ observed = DOMAIN stagger)

\* the script ran while the document was loading, and the listener it
\* registered has run onDOMReady
C31_Witness ==
    /\ constructed
    /\ domReadyListener
    /\ readyState # "loading"
    /\ domReadyRuns = 1
    /\ observed = DOMAIN stagger

(* ================= properties: one entrance per element ================ *)
\* the scroll-triggered fromTo tweens registered for element e
TriggeredEntrances(e) ==
    {i \in DOMAIN tweens : tweens[i].target = e /\ tweens[i].triggered}

\* C32 as stated: no element is the target of two scroll-triggered entrance
\* animations at once: for every element of the page at most one
\* scroll-triggered fromTo tween is registered, also for a .benefit element,
\* which animateSection and animateCards both select.
C32_OneScrollTweenPerElement ==
    \A e \in animDom : Cardinality(TriggeredEntrances(e)) <= 1

(* ================ properties: one navigation per page ================== *)
\* the assignments of window.location.href made by onComplete callbacks
FadeAssignments == {n \in DOMAIN navigations : navigations[n].cause = "fade"}

\* C34 as stated: clicks on same-origin links while a fade-out is already in
\* progress start no second navigation: whatever the sequence of link
\* clicks on one page, window.location is assigned at most once.
C34_LocationAssignedAtMostOnce == Cardinality(FadeAssignments) <= 1

(* ================ properties: reduced-motion round trip ================ *)
\* a page with a hero title, a problem section, a button and main: tweens
\* of every duration the script uses
MotionDom == {"heroTitle", "problemTitle", "btn", "main"}

InitMotion == InitAnimPage({MotionDom}, {TRUE}, {FALSE}, BOOLEAN)

NextMotion ==
    \/ AnimScript
    \/ DOMContentLoaded
    \/ MotionPreferenceChange
    \/ \E d \in FrameSteps : Frame(d)
    \/ PointerEnter("btn")
    \/ PointerLeave("btn")
    \/ clicks = <<>> /\ LinkClick(1)

MotionInit == InitDoc /\ InitMenu /\ InitScroll /\ InitNoLinks /\ InitNoReveal /\ InitNoCounters
              /\ InitNoForms /\ InitNoData /\ InitMotion /\ InitNoDebounce

SpecMotion == MotionInit /\ [][NextMotion]_vars

\* the change listener has handled the switching off of the preference; it
\* is registered at initialisation, so the preference was on before: read
\* at initialisation or switched on under the listener
SwitchedOnAndOff ==
    gsapLoaded /\ motionListener /\ ~reducedMotion /\ setDuration = RestoredDuration

InitStats ==
    /\ \E m \in StatMarkups : dataTarget = <<m.target>> /\ text = <<m.text>>
    /\ text0 = text
    /\ started = <<FALSE>>
    /\ target = <<NaN>>
    /\ ticks = <<0>>
    /\ cleared = <<FALSE>>
    /\ writes = <<0>>
    /\ lastShown = <<Num(0)>>
    /\ prevShown = <<Num(0)>>

InitStatsAnim == InitAnimPage({{"stat"}}, {TRUE}, {FALSE}, {FALSE})

NextStats ==
    \/ Construct
    \/ AnimScript
    \/ DOMContentLoaded
    \/ LoadEvent
    \/ SettleExpire
    \/ CounterTick
    \/ \E d \in FrameSteps : Frame(d)

StatsInit == InitDoc /\ InitMenu /\ InitScroll /\ InitNoLinks /\ InitNoReveal /\ InitStats
             /\ InitNoForms /\ InitNoData /\ InitStatsAnim /\ InitNoDebounce

SpecStats == StatsInit /\ [][NextStats]_vars

\* both writers have finished: the interval is cleared and the tween has
\* left the timeline
StatWritersDone ==
    /\ cleared[StatCounter]
    /\ "animateStats" \in animSetups
    /\ StatTweens(tweens) = <<>>

\* C33 as stated: for an element that is a counter target and a stat number
\* animated by animateStats, with gsap loaded, the numbers written into its
\* text never decrease, whatever the order of interval ticks and tween
\* updates, and when both writers have finished the text is the literal
\* target in the element's format.
C33_WritersDoNotInterfere ==
    /\ writes[StatCounter] >= 2 => prevShown[StatCounter].val <= lastShown[StatCounter].val
    /\ StatWritersDone =>
          text[StatCounter] = FormatCounter(text0[StatCounter], target[StatCounter])

====
